---- MODULE Spec2Model ----
(***************************************************************************)
(* Model of js-tuple: the NestedMap trie container (nested-map.ts) with    *)
(* its sub-views, and the tuple interning cache (tuple.ts / getRef).       *)
(*                                                                         *)
(* JavaScript objects are modelled as a heap of node records addressed by  *)
(* node ids; an id that no handle can reach any more is garbage and may be *)
(* handed out again by the allocator.                                      *)
(***************************************************************************)
EXTENDS Integers, Sequences, FiniteSets, Bags, TLC

\* ------------------------------------------------------------------ bounds
MaxLen == 2        \* longest key path used by the callers
MaxNodes == 4      \* heap cells available for trie nodes
MaxCount == 2      \* |COUNT| of a node is kept within this cap
MaxInst == 2       \* tuple instances alive at one time
MaxUse == 2        \* cap of a primitive token's usage count
MaxWrappers == 2   \* wrapper objects ever made for one primitive value
MaxEntries == 4    \* COUNT cap of the containers that are traversed
BLOCK_SIZE == 2    \* slots of one queue block (1024 in the source, scaled down)
MaxQueue == 5      \* items a queue holds at one time

\* ------------------------------------------------------------- input sets
Keys == {1, 2}                     \* path segment values
NoKey == 0                         \* JS `undefined` used as a Map key
Undefined == "undefined"           \* JS `undefined` as a stored value
Defined == {"a", "b"}              \* two distinguishable stored values
Values == Defined \cup {Undefined} \* every value a caller may store
NoNode == 0                        \* JS `undefined` where a node is expected

NodeIds == 1..MaxNodes
Paths == UNION {[1..n -> Keys] : n \in 0..MaxLen}

VARIABLES
  heap,        \* NodeIds -> CacheNode record
  maps,        \* handle -> NestedMap instance (#root, #baseNode, #basePath)
  last,        \* the last step: a call (name, handle, result, threw) or a host event
  primitives,  \* getRef's Map<unknown, RefInfo>
  tupleCache,  \* tuple's trie: path of References -> the node's WeakRef
  insts,       \* the arrays tuple has frozen: alive or not, held by callers or not
  pending,     \* finalization callbacks the host still has to run (held values)
  chunkedQueue,\* a ChunkedQueue: its blocks, head, tail and _length
  iterator     \* a generator returned by entries() or values(): where its loop is

tupleVars == <<primitives, tupleCache, insts, pending>>
vars == <<heap, maps, last, primitives, tupleCache, insts, pending, chunkedQueue, iterator>>

\* --------------------------------------------------------------- CacheNode
\* type CacheNode = { [MAP]?, [SET]?, [VAL]?, [COUNT] }.  MAP is kept in
\* insertion order as JS Map does; hasMap distinguishes `undefined` from an
\* empty Map.  SET is 0 both for `undefined` and for 0: every read of SET in
\* the source is a truthiness test or `!== 1`.
CacheNode(hasMap, map, set, val, count) ==
  [hasMap |-> hasMap, MAP |-> map, SET |-> set, VAL |-> val, COUNT |-> count]

\* `{ [COUNT]: 0 }`
NewNode == CacheNode(FALSE, <<>>, 0, Undefined, 0)

\* Map.prototype.get / set / delete / size on the ordered entry list
MapGet(node, key) ==
  LET hit == {i \in 1..Len(node.MAP) : node.MAP[i].key = key}
  IN IF hit = {} THEN NoNode ELSE node.MAP[CHOOSE i \in hit : TRUE].node

MapDelete(map, key) == SelectSeq(map, LAMBDA e : e.key # key)

MapSize(node) == Len(node.MAP)

Children(node) == {node.MAP[i].node : i \in 1..Len(node.MAP)}

\* ------------------------------------------------------------------ handles
M == 1      \* the container created with `new NestedMap()`
Sub == 2    \* a view obtained with getSubMap
Copy == 3   \* a container obtained with clone
Handles == {M, Sub, Copy}

NoMap == [live |-> FALSE, root |-> NoNode, hasBase |-> FALSE,
          baseNode |-> <<>>, basePath |-> <<>>]

Range(s) == {s[i] : i \in 1..Len(s)}

\* ----------------------------------------------------- heap reachability
RECURSIVE Closure(_, _)
Closure(hp, S) ==
  LET T == S \cup UNION {Children(hp[n]) : n \in S}
  IN IF T = S THEN S ELSE Closure(hp, T)

HandleRefs(mp) ==
  UNION {{mp[h].root} \cup Range(mp[h].baseNode) : h \in {x \in Handles : mp[x].live}}

Reachable(hp, mp) == Closure(hp, HandleRefs(mp))

\* Object allocation: any cell no live reference can reach.
FreeIds(hp, mp) == NodeIds \ Reachable(hp, mp)
NewId(hp, mp) ==
  LET free == FreeIds(hp, mp)
  IN IF free = {} THEN NoNode ELSE CHOOSE n \in free : \A k \in free : n <= k

\* The order in which the live cells are discovered from the handles, each
\* handle in turn and each node's children in Map order.
RECURSIVE Discover(_, _, _)
Discover(hp, todo, seen) ==
  IF todo = <<>> THEN seen
  ELSE LET n == Head(todo)
           kids == [i \in 1..Len(hp[n].MAP) |-> hp[n].MAP[i].node]
       IN IF n \in Range(seen) THEN Discover(hp, Tail(todo), seen)
          ELSE Discover(hp, kids \o Tail(todo), Append(seen, n))

RECURSIVE HandleSeq(_, _)
HandleSeq(mp, h) ==
  IF h \notin Handles THEN <<>>
  ELSE (IF mp[h].live THEN mp[h].baseNode \o <<mp[h].root>> ELSE <<>>)
       \o HandleSeq(mp, h + 1)

\* Garbage collection: the cells nothing can reach are reclaimed, and the
\* live ones are renumbered in discovery order, so that two heaps that differ
\* only in their addresses are one state.  Addresses are not observable.
Collect(hp, mp) ==
  LET order == Discover(hp, HandleSeq(mp, 1), <<>>)
      addr(n) == CHOOSE i \in 1..Len(order) : order[i] = n
      moved(node) ==
        [node EXCEPT !.MAP = [i \in 1..Len(node.MAP) |->
                                [key |-> node.MAP[i].key, node |-> addr(node.MAP[i].node)]]]
  IN [heap |-> [n \in NodeIds |-> IF n <= Len(order) THEN moved(hp[order[n]]) ELSE NewNode],
      maps |-> [h \in Handles |->
                  IF mp[h].live
                  THEN [mp[h] EXCEPT !.root = addr(@),
                                     !.baseNode = [i \in 1..Len(mp[h].baseNode) |->
                                                     addr(mp[h].baseNode[i])]]
                  ELSE mp[h]]]

\* ------------------------------------------------------ NestedMap internals
\* treatKey: a key that is an array is used as is.
treatKey(nestedKey) == nestedKey

\* #getOrCreateNode: walks the key from the container's root, creating the
\* missing nodes; `path` collects the root and every node walked.
RECURSIVE getOrCreateNodeFrom(_, _, _, _, _, _)
getOrCreateNodeFrom(hp, mp, current, keyArray, i, path) ==
  IF i > Len(keyArray)
  THEN [ok |-> TRUE, heap |-> hp, path |-> path, node |-> current]
  ELSE LET key == keyArray[i]
           withMap == [hp EXCEPT ![current].hasMap = TRUE]
           next == MapGet(hp[current], key)
           id == NewId(hp, mp)
       IN IF next # NoNode
          THEN getOrCreateNodeFrom(withMap, mp, next, keyArray, i + 1,
                                   Append(path, next))
          ELSE IF id = NoNode
          THEN [ok |-> FALSE, heap |-> hp, path |-> path, node |-> current]
          ELSE getOrCreateNodeFrom(
                 [withMap EXCEPT ![current].MAP = Append(@, [key |-> key, node |-> id]),
                                 ![id] = NewNode],
                 mp, id, keyArray, i + 1, Append(path, id))

getOrCreateNode(hp, mp, h, nestedKey) ==
  getOrCreateNodeFrom(hp, mp, mp[h].root, treatKey(nestedKey), 1, <<mp[h].root>>)

\* incrementCount applied by forEach to every node of a list
RECURSIVE incrementCount(_, _, _)
incrementCount(hp, list, i) ==
  IF i > Len(list) THEN hp
  ELSE incrementCount([hp EXCEPT ![list[i]].COUNT = @ + 1], list, i + 1)

\* #internalSet
internalSet(hp, mp, h, current, value, path) ==
  LET isNewEntry == hp[current].SET # 1
      stored == [hp EXCEPT ![current].VAL = value]
      counted == incrementCount(stored, path, 1)
      based == IF mp[h].hasBase THEN incrementCount(counted, mp[h].baseNode, 1)
               ELSE counted
  IN IF isNewEntry THEN [based EXCEPT ![current].SET = 1] ELSE stored

\* #getNode
RECURSIVE getNodeFrom(_, _, _, _)
getNodeFrom(hp, current, keyArray, i) ==
  IF i > Len(keyArray) THEN current
  ELSE LET next == MapGet(hp[current], keyArray[i])
       IN IF next = NoNode THEN NoNode ELSE getNodeFrom(hp, next, keyArray, i + 1)

getNode(hp, mp, h, nestedKey) == getNodeFrom(hp, mp[h].root, treatKey(nestedKey), 1)

\* ------------------------------------------------ NestedMap public methods
\* get size()
size(hp, mp, h) == hp[mp[h].root].COUNT

\* get(keyArray)
get(hp, mp, h, keyArray) ==
  LET node == getNode(hp, mp, h, keyArray)
  IN IF node = NoNode THEN Undefined ELSE hp[node].VAL

\* has(keyArray)
has(hp, mp, h, keyArray) == get(hp, mp, h, keyArray) # Undefined

\* nodeSize(nestedKey)
nodeSize(hp, mp, h, nestedKey) ==
  LET node == getNode(hp, mp, h, nestedKey)
  IN IF node = NoNode THEN 0 ELSE hp[node].COUNT

\* set(nestedKey, value)
set(hp, mp, h, nestedKey, value) ==
  LET w == getOrCreateNode(hp, mp, h, nestedKey)
  IN [ok |-> w.ok,
      heap |-> IF w.ok THEN internalSet(w.heap, mp, h, w.node, value, w.path) ELSE hp,
      ret |-> "this", threw |-> FALSE]

\* getOrSet(nestedKey, getNewValue); `value` is what the factory would return
getOrSet(hp, mp, h, nestedKey, value) ==
  LET w == getOrCreateNode(hp, mp, h, nestedKey)
  IN IF ~w.ok THEN [ok |-> FALSE, heap |-> hp, ret |-> Undefined, threw |-> FALSE,
                    called |-> FALSE]
     ELSE IF w.heap[w.node].VAL # Undefined
     THEN [ok |-> TRUE, heap |-> w.heap, ret |-> w.heap[w.node].VAL, threw |-> FALSE,
           called |-> FALSE]
     ELSE [ok |-> TRUE, heap |-> internalSet(w.heap, mp, h, w.node, value, w.path),
           ret |-> value, threw |-> FALSE, called |-> TRUE]

\* ------------------------------------------- keys that are not arrays
\* the values a caller passes as a key that is not an array; NoKey is
\* `undefined`
ScalarKeys == Keys \cup {NoKey}

\* treatKey of a key that is not an array: [nestedKey]
treatKeyOf(nestedKey) == <<nestedKey>>

\* #getOrCreateNode called with a key that is not an array: `undefined`
\* returns the root before anything is pushed to path
getOrCreateNodeOfKey(hp, mp, h, nestedKey) ==
  IF nestedKey = NoKey
  THEN [ok |-> TRUE, heap |-> hp, path |-> <<>>, node |-> mp[h].root]
  ELSE getOrCreateNodeFrom(hp, mp, mp[h].root, treatKeyOf(nestedKey), 1, <<mp[h].root>>)

\* set(nestedKey, value) with a key that is not an array
setKey(hp, mp, h, nestedKey, value) ==
  LET w == getOrCreateNodeOfKey(hp, mp, h, nestedKey)
  IN [ok |-> w.ok,
      heap |-> IF w.ok THEN internalSet(w.heap, mp, h, w.node, value, w.path) ELSE hp,
      ret |-> "this", threw |-> FALSE]

\* getOrSet(nestedKey, getNewValue) with a key that is not an array
getOrSetKey(hp, mp, h, nestedKey, value) ==
  LET w == getOrCreateNodeOfKey(hp, mp, h, nestedKey)
  IN IF ~w.ok THEN [ok |-> FALSE, heap |-> hp, ret |-> Undefined, threw |-> FALSE,
                    called |-> FALSE]
     ELSE IF w.heap[w.node].VAL # Undefined
     THEN [ok |-> TRUE, heap |-> w.heap, ret |-> w.heap[w.node].VAL, threw |-> FALSE,
           called |-> FALSE]
     ELSE [ok |-> TRUE, heap |-> internalSet(w.heap, mp, h, w.node, value, w.path),
           ret |-> value, threw |-> FALSE, called |-> TRUE]

\* get, has and delete with a key that is not an array: #getNode and delete
\* wrap it themselves
getKey(hp, mp, h, nestedKey) == get(hp, mp, h, treatKeyOf(nestedKey))
hasKey(hp, mp, h, nestedKey) == has(hp, mp, h, treatKeyOf(nestedKey))

\* propagateDelete telling its caller to go on whenever the Map got empty,
\* whether the node has a value or not
propagateDeleteIgnoresValue(hp, map, key, decrement, canDelete) ==
  LET counted == [hp EXCEPT ![map].COUNT = @ - decrement]
      nodeMap == MapDelete(hp[map].MAP, key)
  IN IF ~canDelete THEN [heap |-> counted, ret |-> FALSE, threw |-> FALSE]
     ELSE IF ~hp[map].hasMap THEN [heap |-> counted, ret |-> FALSE, threw |-> TRUE]
     ELSE IF Len(nodeMap) = 0
     THEN [heap |-> [counted EXCEPT ![map].MAP = <<>>, ![map].hasMap = FALSE],
           ret |-> TRUE, threw |-> FALSE]
     ELSE [heap |-> [counted EXCEPT ![map].MAP = nodeMap], ret |-> FALSE,
           threw |-> FALSE]

\* propagateDelete(map, key, decrement, canDelete); `nodeMap.delete` on a node
\* whose MAP is undefined raises a TypeError after COUNT was already changed.
propagateDelete(hp, map, key, decrement, canDelete) ==
  LET counted == [hp EXCEPT ![map].COUNT = @ - decrement]
      nodeMap == MapDelete(hp[map].MAP, key)
  IN IF ~canDelete THEN [heap |-> counted, ret |-> FALSE, threw |-> FALSE]
     ELSE IF ~hp[map].hasMap THEN [heap |-> counted, ret |-> FALSE, threw |-> TRUE]
     ELSE IF Len(nodeMap) = 0
     THEN [heap |-> [counted EXCEPT ![map].MAP = <<>>, ![map].hasMap = FALSE],
           ret |-> hp[map].SET # 1, threw |-> FALSE]
     ELSE [heap |-> [counted EXCEPT ![map].MAP = nodeMap], ret |-> FALSE,
           threw |-> FALSE]

\* one bottom-up clean-up loop of delete over the recorded {map, key} pairs,
\* from index i down to 1
RECURSIVE cleanUp(_, _, _, _, _)
cleanUp(hp, pairs, i, decrement, canDelete) ==
  IF i < 1 THEN [heap |-> hp, canDelete |-> canDelete, threw |-> FALSE]
  ELSE LET r == propagateDelete(hp, pairs[i].map, pairs[i].key, decrement, canDelete)
       IN IF r.threw THEN [heap |-> r.heap, canDelete |-> canDelete, threw |-> TRUE]
          ELSE cleanUp(r.heap, pairs, i - 1, decrement, r.ret)

\* the navigation loop of delete: the {map, key} pairs walked, and the node
\* reached (NoNode when a segment is missing)
RECURSIVE deleteWalk(_, _, _, _, _)
deleteWalk(hp, current, keyArray, i, path) ==
  IF i > Len(keyArray) THEN [node |-> current, path |-> path]
  ELSE LET next == MapGet(hp[current], keyArray[i])
           walked == Append(path, [map |-> current, key |-> keyArray[i]])
       IN IF next = NoNode THEN [node |-> NoNode, path |-> walked]
          ELSE deleteWalk(hp, next, keyArray, i + 1, walked)

\* the {map, key} pairs of the alias chain: baseNode[i] with basePath[i],
\* where basePath[i] is undefined past the end of basePath
basePairs(inst) ==
  [i \in 1..Len(inst.baseNode) |->
     [map |-> inst.baseNode[i],
      key |-> IF i <= Len(inst.basePath) THEN inst.basePath[i] ELSE NoKey]]

\* delete(nestedKey, deleteSubTree)
delete(hp, mp, h, nestedKey, deleteSubTree) ==
  LET w == deleteWalk(hp, mp[h].root, treatKey(nestedKey), 1, <<>>)
      current == w.node
      decrement == IF deleteSubTree THEN hp[current].COUNT
                   ELSE IF hp[current].SET = 1 THEN 1 ELSE 0
      unset == [hp EXCEPT ![current].VAL = Undefined, ![current].SET = 0]
      cut == IF deleteSubTree
             THEN [unset EXCEPT ![current].MAP = <<>>, ![current].hasMap = FALSE]
             ELSE unset
      own == cleanUp(cut, w.path, Len(w.path), decrement, MapSize(cut[current]) = 0)
      pairs == basePairs(mp[h])
      alias == cleanUp(own.heap, pairs, Len(pairs), decrement, own.canDelete)
  IN IF current = NoNode THEN [heap |-> hp, ret |-> "false", threw |-> FALSE]
     ELSE IF hp[current].SET # 1 /\ (~deleteSubTree \/ MapSize(hp[current]) = 0)
     THEN [heap |-> hp, ret |-> "false", threw |-> FALSE]
     ELSE IF own.threw THEN [heap |-> own.heap, ret |-> "throw", threw |-> TRUE]
     ELSE IF ~mp[h].hasBase \/ Len(mp[h].baseNode) = 0
     THEN [heap |-> own.heap, ret |-> "true", threw |-> FALSE]
     ELSE IF alias.threw THEN [heap |-> alias.heap, ret |-> "throw", threw |-> TRUE]
     ELSE [heap |-> alias.heap, ret |-> "true", threw |-> FALSE]

\* delete(nestedKey) with a key that is not an array
deleteKey(hp, mp, h, nestedKey) == delete(hp, mp, h, treatKeyOf(nestedKey), FALSE)

\* clear()
clear(hp, mp, h) ==
  LET root == mp[h].root
  IN [hp EXCEPT ![root].MAP = <<>>, ![root].COUNT = 0]

\* getSubMap(basePath): the new instance, and the heap with the created nodes
getSubMap(hp, mp, h, basePath) ==
  LET w == getOrCreateNode(hp, mp, h, basePath)
  IN [ok |-> w.ok, heap |-> w.heap,
      inst |-> [live |-> TRUE, root |-> w.node, hasBase |-> TRUE,
                baseNode |-> w.path, basePath |-> basePath]]


\* ---------------------------------------------------------------- traversal
\* enum TraverseMode, enum YieldMode
DepthFirst == "depth-first"
BreadthFirst == "breadth-first"
PreOrder == "pre-order"
PostOrder == "post-order"
TraverseModes == {DepthFirst, BreadthFirst}
YieldModes == {PreOrder, PostOrder}

\* IterationOptions: { basePath?, traverseMode?, yieldMode? }
Options(traverseMode, yieldMode) ==
  [hasBasePath |-> FALSE, basePath |-> <<>>,
   traverseMode |-> traverseMode, yieldMode |-> yieldMode]

OptionsAt(basePath, traverseMode, yieldMode) ==
  [hasBasePath |-> TRUE, basePath |-> basePath,
   traverseMode |-> traverseMode, yieldMode |-> yieldMode]

\* a key that is not an array and is falsy in JavaScript (0, '', false, null)
FalsyKey == 3

\* `if (basePath)` for a key that is not an array
Truthy(basePath) == basePath # FalsyKey

\* IterationOptions whose basePath is a key that is not an array: #traverse
\* tests it with `if (basePath)`, looks up [basePath] and pushes it to prevPath
ScalarOptions(basePath, traverseMode, yieldMode) ==
  [hasBasePath |-> Truthy(basePath), basePath |-> <<basePath>>,
   traverseMode |-> traverseMode, yieldMode |-> yieldMode]

\* interface StackItem { node, path, visited }
StackItem(node, path) == [node |-> node, path |-> path, visited |-> FALSE]

\* getValueFactory(false): [path, node[VAL]]
getValue(hp, stackItem) == [key |-> stackItem.path, value |-> hp[stackItem.node].VAL]

\* `if (stackItem.node[SET]) yield getValue(stackItem)`
yieldIfSet(hp, out, stackItem) ==
  IF hp[stackItem.node].SET = 1 THEN Append(out, getValue(hp, stackItem)) ELSE out

\* the children pushed from the last of the Map to the first
pushToStackReversed(hp, stack, stackItem) ==
  LET map == hp[stackItem.node].MAP
  IN stack \o [i \in 1..Len(map) |->
                 StackItem(map[Len(map) + 1 - i].node,
                           Append(stackItem.path, map[Len(map) + 1 - i].key))]

\* the children of every item pushed twice
pushToStackTwice(hp, stack, stackItem) ==
  LET map == hp[stackItem.node].MAP
  IN stack \o [i \in 1..(2 * Len(map)) |->
                 StackItem(map[(i + 1) \div 2].node,
                           Append(stackItem.path, map[(i + 1) \div 2].key))]

\* pushToStackFactory(false): pushes one item per child, in Map order
pushToStack(hp, stack, stackItem) ==
  LET map == hp[stackItem.node].MAP
  IN stack \o [i \in 1..Len(map) |->
                 StackItem(map[i].node, Append(stackItem.path, map[i].key))]

\* Array.prototype.pop: the array without its last item
Popped(stack) == SubSeq(stack, 1, Len(stack) - 1)

\* traverser[DepthFirst][PreOrder]
RECURSIVE DepthFirstPreOrder(_, _, _)
DepthFirstPreOrder(hp, stack, out) ==
  IF Len(stack) = 0 THEN out
  ELSE LET current == stack[Len(stack)]
       IN DepthFirstPreOrder(hp, pushToStack(hp, Popped(stack), current),
                             yieldIfSet(hp, out, current))

\* a depth-first walk that yields a node when it first pops it
RECURSIVE DepthFirstPostOrderNoRevisit(_, _, _)
DepthFirstPostOrderNoRevisit(hp, stack, out) ==
  IF Len(stack) = 0 THEN out
  ELSE LET current == stack[Len(stack)]
       IN DepthFirstPostOrderNoRevisit(hp, pushToStack(hp, SubSeq(stack, 1, Len(stack) - 1), current),
                                       yieldIfSet(hp, out, current))

\* traverser[DepthFirst][PostOrder]
RECURSIVE DepthFirstPostOrder(_, _, _)
DepthFirstPostOrder(hp, stack, out) ==
  IF Len(stack) = 0 THEN out
  ELSE LET current == stack[Len(stack)]
       IN IF current.visited
          THEN DepthFirstPostOrder(hp, Popped(stack), yieldIfSet(hp, out, current))
          ELSE IF MapSize(hp[current.node]) = 0
          THEN DepthFirstPostOrder(hp, Popped(stack), yieldIfSet(hp, out, current))
          ELSE DepthFirstPostOrder(
                 hp,
                 pushToStack(hp, Append(Popped(stack), [current EXCEPT !.visited = TRUE]),
                             current),
                 out)

\* traverser[BreadthFirst][PreOrder]: ChunkedQueue.pop takes the oldest item
RECURSIVE BreadthFirstPreOrder(_, _, _)
BreadthFirstPreOrder(hp, queue, out) ==
  IF Len(queue) = 0 THEN out
  ELSE LET stackItem == Head(queue)
       IN BreadthFirstPreOrder(hp, pushToStack(hp, Tail(queue), stackItem),
                               yieldIfSet(hp, out, stackItem))

\* traverser[BreadthFirst][PostOrder], first loop: one level into nextQueue
RECURSIVE nextQueueOf(_, _, _, _)
nextQueueOf(hp, queue, i, nextQueue) ==
  IF i > Len(queue) THEN nextQueue
  ELSE nextQueueOf(hp, queue, i + 1, pushToStack(hp, nextQueue, queue[i]))

RECURSIVE collectLevels(_, _, _)
collectLevels(hp, queue, levels) ==
  IF Len(queue) = 0 THEN levels
  ELSE collectLevels(hp, nextQueueOf(hp, queue, 1, <<>>), Append(levels, queue))

\* one level yielded from right to left
RECURSIVE yieldLevelRightToLeft(_, _, _, _)
yieldLevelRightToLeft(hp, level, j, out) ==
  IF j > Len(level) THEN out
  ELSE yieldLevelRightToLeft(hp, level, j + 1,
                             yieldIfSet(hp, out, level[Len(level) + 1 - j]))

\* second loop: the levels from the last to the first, each from left to right
RECURSIVE yieldLevel(_, _, _, _)
yieldLevel(hp, level, j, out) ==
  IF j > Len(level) THEN out
  ELSE yieldLevel(hp, level, j + 1, yieldIfSet(hp, out, level[j]))

RECURSIVE yieldLevels(_, _, _, _)
yieldLevels(hp, levels, i, out) ==
  IF i < 1 THEN out
  ELSE yieldLevels(hp, levels, i - 1, yieldLevel(hp, levels[i], 1, out))

BreadthFirstPostOrder(hp, queue) ==
  LET levels == collectLevels(hp, queue, <<>>)
  IN yieldLevels(hp, levels, Len(levels), <<>>)

\* traverser[traverseMode][yieldMode](root, prevPath, 0)
traverser(hp, traverseMode, yieldMode, root, prevPath) ==
  LET first == <<StackItem(root, prevPath)>>
  IN IF traverseMode = DepthFirst
     THEN (IF yieldMode = PreOrder THEN DepthFirstPreOrder(hp, first, <<>>)
           ELSE DepthFirstPostOrder(hp, first, <<>>))
     ELSE (IF yieldMode = PreOrder THEN BreadthFirstPreOrder(hp, first, <<>>)
           ELSE BreadthFirstPostOrder(hp, first))

\* #traverse(0, options): everything the iterator yields, in order
traverse(hp, mp, h, options) ==
  LET root == IF options.hasBasePath THEN getNode(hp, mp, h, options.basePath)
              ELSE mp[h].root
      prevPath == IF options.hasBasePath THEN treatKey(options.basePath) ELSE <<>>
  IN IF root = NoNode THEN <<>>
     ELSE traverser(hp, options.traverseMode, options.yieldMode, root, prevPath)

\* entries(options)
entries(hp, mp, h, options) == traverse(hp, mp, h, options)

\* keys(options): the key of every entry
keys(hp, mp, h, options) ==
  LET e == entries(hp, mp, h, options) IN [i \in 1..Len(e) |-> e[i].key]

\* ------------------------------------------------- values: justValue = 1
\* `{ node: sub }`: a stack item without path
NoPath == <<>>
StackItem1(node) == [node |-> node, path |-> NoPath, visited |-> FALSE]

\* getValueFactory(true): node[VAL]
getValue1(hp, stackItem) == hp[stackItem.node].VAL

\* `if (stackItem.node[SET]) yield getValue(stackItem)`
yieldIfSet1(hp, out, stackItem) ==
  IF hp[stackItem.node].SET = 1 THEN Append(out, getValue1(hp, stackItem)) ELSE out

\* the children pushed from the last of the Map to the first
pushToStack1Reversed(hp, stack, stackItem) ==
  LET map == hp[stackItem.node].MAP
  IN stack \o [i \in 1..Len(map) |-> StackItem1(map[Len(map) + 1 - i].node)]

\* pushToStackFactory(true): one item per child, in the order of Map.values()
pushToStack1(hp, stack, stackItem) ==
  LET map == hp[stackItem.node].MAP
  IN stack \o [i \in 1..Len(map) |-> StackItem1(map[i].node)]

\* traverser[DepthFirst][PreOrder] with justValue = 1
RECURSIVE DepthFirstPreOrder1(_, _, _)
DepthFirstPreOrder1(hp, stack, out) ==
  IF Len(stack) = 0 THEN out
  ELSE LET current == stack[Len(stack)]
       IN DepthFirstPreOrder1(hp, pushToStack1(hp, Popped(stack), current),
                              yieldIfSet1(hp, out, current))

\* traverser[DepthFirst][PostOrder] with justValue = 1
RECURSIVE DepthFirstPostOrder1(_, _, _)
DepthFirstPostOrder1(hp, stack, out) ==
  IF Len(stack) = 0 THEN out
  ELSE LET current == stack[Len(stack)]
       IN IF current.visited
          THEN DepthFirstPostOrder1(hp, Popped(stack), yieldIfSet1(hp, out, current))
          ELSE IF MapSize(hp[current.node]) = 0
          THEN DepthFirstPostOrder1(hp, Popped(stack), yieldIfSet1(hp, out, current))
          ELSE DepthFirstPostOrder1(
                 hp,
                 pushToStack1(hp, Append(Popped(stack), [current EXCEPT !.visited = TRUE]),
                              current),
                 out)

\* traverser[BreadthFirst][PreOrder] with justValue = 1
RECURSIVE BreadthFirstPreOrder1(_, _, _)
BreadthFirstPreOrder1(hp, queue, out) ==
  IF Len(queue) = 0 THEN out
  ELSE LET stackItem == Head(queue)
       IN BreadthFirstPreOrder1(hp, pushToStack1(hp, Tail(queue), stackItem),
                                yieldIfSet1(hp, out, stackItem))

\* traverser[BreadthFirst][PostOrder] with justValue = 1
RECURSIVE nextQueueOf1(_, _, _, _)
nextQueueOf1(hp, queue, i, nextQueue) ==
  IF i > Len(queue) THEN nextQueue
  ELSE nextQueueOf1(hp, queue, i + 1, pushToStack1(hp, nextQueue, queue[i]))

RECURSIVE collectLevels1(_, _, _)
collectLevels1(hp, queue, levels) ==
  IF Len(queue) = 0 THEN levels
  ELSE collectLevels1(hp, nextQueueOf1(hp, queue, 1, <<>>), Append(levels, queue))

RECURSIVE yieldLevel1(_, _, _, _)
yieldLevel1(hp, level, j, out) ==
  IF j > Len(level) THEN out
  ELSE yieldLevel1(hp, level, j + 1, yieldIfSet1(hp, out, level[j]))

RECURSIVE yieldLevels1(_, _, _, _)
yieldLevels1(hp, levels, i, out) ==
  IF i < 1 THEN out
  ELSE yieldLevels1(hp, levels, i - 1, yieldLevel1(hp, levels[i], 1, out))

BreadthFirstPostOrder1(hp, queue) ==
  LET levels == collectLevels1(hp, queue, <<>>)
  IN yieldLevels1(hp, levels, Len(levels), <<>>)

\* traverser[traverseMode][yieldMode](root, prevPath, 1)
traverser1(hp, traverseMode, yieldMode, root, prevPath) ==
  LET first == <<StackItem(root, prevPath)>>
  IN IF traverseMode = DepthFirst
     THEN (IF yieldMode = PreOrder THEN DepthFirstPreOrder1(hp, first, <<>>)
           ELSE DepthFirstPostOrder1(hp, first, <<>>))
     ELSE (IF yieldMode = PreOrder THEN BreadthFirstPreOrder1(hp, first, <<>>)
           ELSE BreadthFirstPostOrder1(hp, first))

\* #traverse(1, options)
traverse1(hp, mp, h, options) ==
  LET root == IF options.hasBasePath THEN getNode(hp, mp, h, options.basePath)
              ELSE mp[h].root
      prevPath == IF options.hasBasePath THEN treatKey(options.basePath) ELSE <<>>
  IN IF root = NoNode THEN <<>>
     ELSE traverser1(hp, options.traverseMode, options.yieldMode, root, prevPath)

\* values(options)
values(hp, mp, h, options) == traverse1(hp, mp, h, options)

\* -------------------------------------------------------------------- clone
\* a copy that takes the count and the flag of src and leaves its value behind
cloneFieldsNoValue(src, tgt) ==
  [tgt EXCEPT !.COUNT = src.COUNT, !.SET = IF src.SET = 1 THEN src.SET ELSE @]

\* the fields the callback of clone copies from src to tgt
cloneFields(src, tgt) ==
  [tgt EXCEPT !.COUNT = src.COUNT,
              !.SET = IF src.SET = 1 THEN src.SET ELSE @,
              !.VAL = IF src.VAL # Undefined THEN src.VAL ELSE @]

\* the loop of the callback over src[MAP].entries(): a new child of tgt per
\* child of src, queued to be copied in its turn
RECURSIVE cloneChildren(_, _, _, _, _, _)
cloneChildren(hp, mp, src, tgt, i, queue) ==
  IF i > Len(hp[src].MAP) THEN [ok |-> TRUE, heap |-> hp, queue |-> queue]
  ELSE LET key == hp[src].MAP[i].key
           child == hp[src].MAP[i].node
           childTgt == NewId(hp, mp)
       IN IF childTgt = NoNode THEN [ok |-> FALSE, heap |-> hp, queue |-> queue]
          ELSE cloneChildren(
                 [hp EXCEPT ![childTgt] = [NewNode EXCEPT !.COUNT = hp[child].COUNT],
                            ![tgt].MAP = Append(@, [key |-> key, node |-> childTgt])],
                 mp, src, tgt, i + 1, Append(queue, [src |-> child, tgt |-> childTgt]))

\* queue.exhaust(callback): the oldest item first
RECURSIVE cloneExhaust(_, _, _)
cloneExhaust(hp, mp, queue) ==
  IF Len(queue) = 0 THEN [ok |-> TRUE, heap |-> hp]
  ELSE LET src == Head(queue).src
           tgt == Head(queue).tgt
           copied == [hp EXCEPT ![tgt] = cloneFields(hp[src], hp[tgt])]
           mapped == [copied EXCEPT ![tgt].hasMap = TRUE, ![tgt].MAP = <<>>]
           r == cloneChildren(mapped, mp, src, tgt, 1, Tail(queue))
       IN IF ~hp[src].hasMap THEN cloneExhaust(copied, mp, Tail(queue))
          ELSE IF ~r.ok THEN [ok |-> FALSE, heap |-> hp]
          ELSE cloneExhaust(r.heap, mp, r.queue)

\* a copy one level deep: a new root that refers to the children of the source
cloneShallow(hp, mp, h, hasBasePath, basePath, h2) ==
  LET found == IF hasBasePath THEN getNode(hp, mp, h, basePath) ELSE mp[h].root
      id == NewId(hp, mp)
      inst == [live |-> TRUE, root |-> id, hasBase |-> FALSE,
               baseNode |-> <<>>, basePath |-> <<>>]
  IN IF id = NoNode THEN [ok |-> FALSE, heap |-> hp, inst |-> NoMap]
     ELSE IF found = NoNode THEN [ok |-> TRUE, heap |-> [hp EXCEPT ![id] = NewNode], inst |-> inst]
     ELSE [ok |-> TRUE, heap |-> [hp EXCEPT ![id] = hp[found]], inst |-> inst]

\* clone(basePath?): the new instance, kept by the caller in h2, and the heap
\* with the copied nodes
clone(hp, mp, h, hasBasePath, basePath, h2) ==
  LET found == IF hasBasePath THEN getNode(hp, mp, h, basePath) ELSE mp[h].root
      id == NewId(hp, mp)
      inst == [live |-> TRUE, root |-> id, hasBase |-> FALSE,
               baseNode |-> <<>>, basePath |-> <<>>]
      made == [hp EXCEPT ![id] = NewNode]
      r == cloneExhaust(made, [mp EXCEPT ![h2] = inst], <<[src |-> found, tgt |-> id]>>)
  IN IF id = NoNode THEN [ok |-> FALSE, heap |-> hp, inst |-> NoMap]
     ELSE IF found = NoNode THEN [ok |-> TRUE, heap |-> made, inst |-> inst]
     ELSE [ok |-> r.ok, heap |-> r.heap, inst |-> inst]


\* ------------------------------------------------------------------ actions
\* `new NestedMap()`: #root = { [COUNT]: 0 }, no #baseNode, no #basePath
InitMap ==
  /\ heap = [n \in NodeIds |-> NewNode]
  /\ maps = [h \in Handles |->
               IF h = M THEN [live |-> TRUE, root |-> 1, hasBase |-> FALSE,
                              baseNode |-> <<>>, basePath |-> <<>>]
               ELSE NoMap]
  /\ last = [op |-> "new", h |-> M, ret |-> "this", threw |-> FALSE]


\* ------------------------------------------------------- tuple and getRef
\* JavaScript values handed to tuple: primitives (equal by value), objects
\* (equal by identity), and the wrapper objects getRef makes for primitives.
Prim(v) == [t |-> "prim", v |-> v, g |-> 0]
Obj(v) == [t |-> "obj", v |-> v, g |-> 0]
Wrapper(v, g) == [t |-> "wrap", v |-> v, g |-> g]

\* the element sequences callers hand to tuple: the empty one, a sequence
\* and a strict prefix of it, the same elements in another order, and an
\* object element in front of a primitive
TupleInputs ==
  {<<>>, <<Prim(1)>>, <<Prim(2)>>, <<Prim(1), Prim(2)>>, <<Prim(2), Prim(1)>>,
   <<Obj(1), Prim(1)>>}

InstIds == 1..MaxInst
EMPTY_TUPLE == 0                   \* Object.freeze([]), never collected
NoRef == -1                        \* a cache node without a WeakRef
Dead == -2                         \* a WeakRef whose target was collected

NoInst == [live |-> FALSE, held |-> FALSE, elems |-> <<>>, regs |-> <<>>,
           frozen |-> FALSE, own |-> FALSE]

\* elements.slice() handing back the array it was called on
sliceSame(elements) == [elems |-> elements, frozen |-> FALSE, own |-> FALSE]

\* elements.slice(): a new array with the same elements; `own` tells that
\* the array is not the caller's
slice(elements) ==
  [elems |-> elements, frozen |-> FALSE, own |-> TRUE]

\* Object.freeze(array): the same array, frozen
freeze(array) ==
  [array EXCEPT !.frozen = TRUE]

\* Object.isFrozen(array)
isFrozen(array) == array.frozen

\* the array EMPTY_TUPLE names: Object.freeze([])
EmptyArray == freeze([elems |-> <<>>, frozen |-> FALSE, own |-> TRUE])

\* every wrapper object something still refers to
WrappersInUse(prims, cache, ins, pend) ==
  {prims[k].ref : k \in DOMAIN prims}
    \cup UNION {Range(path) : path \in DOMAIN cache}
    \cup UNION {Range(ins[i].regs) : i \in InstIds}
    \cup BagToSet(pend)

\* a wrapper object that is none of the given ones: `{ [value]: v }`
NewWrapper(v, inUse) ==
  LET free == {g \in 1..MaxWrappers : Wrapper(v.v, g) \notin inUse}
  IN IF free = {} THEN Wrapper(v.v, 0)
     ELSE Wrapper(v.v, CHOOSE g \in free : \A k \in free : g <= k)

\* getRef with one wrapper for all primitives: the table is looked up with
\* a key that does not depend on the value
getRefOneWrapper(prims, inUse, v) ==
  IF v.t = "obj" THEN [primitives |-> prims, ref |-> v, basics |-> <<>>]
  ELSE IF Prim(0) \in DOMAIN prims
  THEN [primitives |-> prims, ref |-> prims[Prim(0)].ref, basics |-> <<Prim(0)>>]
  ELSE [primitives |-> prims @@ (Prim(0) :> [ref |-> NewWrapper(Prim(0), inUse), count |-> 0]),
        ref |-> NewWrapper(Prim(0), inUse), basics |-> <<Prim(0)>>]

\* getRef making a wrapper on every call for a primitive, whatever the table
\* holds
getRefFreshWrapper(prims, inUse, v) ==
  IF v.t = "obj" THEN [primitives |-> prims, ref |-> v, basics |-> <<>>]
  ELSE [primitives |-> (v :> [ref |-> NewWrapper(v, inUse),
                               count |-> IF v \in DOMAIN prims THEN prims[v].count ELSE 0])
                       @@ prims,
        ref |-> NewWrapper(v, inUse), basics |-> <<v>>]

\* getRef(v, basics): the Reference of v, the primitives table after the
\* call, and what the call pushed to basics (the RefInfo, named by its key)
getRef(prims, inUse, v) ==
  IF v.t = "obj" THEN [primitives |-> prims, ref |-> v, basics |-> <<>>]
  ELSE IF v \in DOMAIN prims
  THEN [primitives |-> prims, ref |-> prims[v].ref, basics |-> <<v>>]
  ELSE [primitives |-> prims @@ (v :> [ref |-> NewWrapper(v, inUse), count |-> 0]),
        ref |-> NewWrapper(v, inUse), basics |-> <<v>>]

\* the loop of tuple: getRef on each element, the node path walked or created
RECURSIVE tupleWalk(_, _, _, _, _, _, _)
tupleWalk(prims, cache, inUse, elements, i, path, basics) ==
  IF i > Len(elements)
  THEN [primitives |-> prims, cache |-> cache, path |-> path, basics |-> basics]
  ELSE LET r == getRef(prims, inUse, elements[i])
           node == Append(path, r.ref)
           made == IF node \in DOMAIN cache THEN cache ELSE cache @@ (node :> NoRef)
       IN tupleWalk(r.primitives, made, inUse \cup {r.ref}, elements, i + 1, node,
                    basics \o r.basics)

\* registerUsage(basics, result): count++ and one registration per RefInfo
RECURSIVE registerUsage(_, _, _)
registerUsage(prims, basics, i) ==
  IF i > Len(basics) THEN prims
  ELSE registerUsage([prims EXCEPT ![basics[i]].count = @ + 1], basics, i + 1)

FreeInst(ins) == {i \in InstIds : ~ins[i].live}
NewInst(ins) ==
  IF FreeInst(ins) = {} THEN EMPTY_TUPLE
  ELSE CHOOSE i \in FreeInst(ins) : \A k \in FreeInst(ins) : i <= k

\* tuple without the early return for a sequence of length 0: the empty
\* sequence is interned at the root node like any other
tupleInternsEmpty(prims, cache, ins, pend, elements, keep) ==
  LET w == tupleWalk(prims, cache, WrappersInUse(prims, cache, ins, pend),
                     elements, 1, <<>>, <<>>)
      ref == w.cache[w.path]
      result == IF ref \in InstIds THEN ref ELSE NewInst(ins)
      regs == [i \in 1..Len(w.basics) |-> w.primitives[w.basics[i]].ref]
      made == freeze(slice(elements))
  IN IF ref \in InstIds
     THEN [ok |-> TRUE, ret |-> ref, primitives |-> w.primitives, cache |-> w.cache,
           insts |-> [ins EXCEPT ![ref].held = @ \/ keep]]
     ELSE [ok |-> result # EMPTY_TUPLE /\ \A x \in Range(w.path) : x.t = "wrap" => x.g > 0,
           ret |-> result,
           primitives |-> registerUsage(w.primitives, w.basics, 1),
           cache |-> [w.cache EXCEPT ![w.path] = result],
           insts |-> IF result = EMPTY_TUPLE THEN ins
                     ELSE [ins EXCEPT ![result] = [live |-> TRUE, held |-> keep,
                                                    elems |-> made.elems, regs |-> regs,
                                                    frozen |-> made.frozen,
                                                    own |-> made.own]]]

\* tuple taking any WeakRef found at the node for a hit: a WeakRef whose
\* target was collected hands back its empty deref
tupleKeepsDeadRef(prims, cache, ins, pend, elements, keep) ==
  LET w == tupleWalk(prims, cache, WrappersInUse(prims, cache, ins, pend),
                     elements, 1, <<>>, <<>>)
      ref == w.cache[w.path]
      result == IF ref \in InstIds THEN ref ELSE NewInst(ins)
      regs == [i \in 1..Len(w.basics) |-> w.primitives[w.basics[i]].ref]
      made == freeze(slice(elements))
  IN IF Len(elements) = 0
     THEN [ok |-> TRUE, ret |-> EMPTY_TUPLE, primitives |-> prims, cache |-> cache,
           insts |-> ins]
     ELSE IF ref \in InstIds
     THEN [ok |-> TRUE, ret |-> ref, primitives |-> w.primitives, cache |-> w.cache,
           insts |-> [ins EXCEPT ![ref].held = @ \/ keep]]
     ELSE IF ref = Dead
     THEN [ok |-> TRUE, ret |-> Dead, primitives |-> w.primitives, cache |-> w.cache,
           insts |-> ins]
     ELSE [ok |-> result # EMPTY_TUPLE /\ \A x \in Range(w.path) : x.t = "wrap" => x.g > 0,
           ret |-> result,
           primitives |-> registerUsage(w.primitives, w.basics, 1),
           cache |-> [w.cache EXCEPT ![w.path] = result],
           insts |-> IF result = EMPTY_TUPLE THEN ins
                     ELSE [ins EXCEPT ![result] = [live |-> TRUE, held |-> keep,
                                                    elems |-> made.elems, regs |-> regs,
                                                    frozen |-> made.frozen,
                                                    own |-> made.own]]]

\* tuple(elements): the instance returned and the state the call leaves;
\* `keep` tells whether the caller keeps a strong reference to the result
tuple(prims, cache, ins, pend, elements, keep) ==
  LET w == tupleWalk(prims, cache, WrappersInUse(prims, cache, ins, pend),
                     elements, 1, <<>>, <<>>)
      ref == w.cache[w.path]
      result == IF ref \in InstIds THEN ref ELSE NewInst(ins)
      regs == [i \in 1..Len(w.basics) |-> w.primitives[w.basics[i]].ref]
      made == freeze(slice(elements))
  IN IF Len(elements) = 0
     THEN [ok |-> TRUE, ret |-> EMPTY_TUPLE, primitives |-> prims, cache |-> cache,
           insts |-> ins]
     ELSE IF ref \in InstIds
     THEN [ok |-> TRUE, ret |-> ref, primitives |-> w.primitives, cache |-> w.cache,
           insts |-> [ins EXCEPT ![ref].held = @ \/ keep]]
     ELSE [ok |-> result # EMPTY_TUPLE /\ \A x \in Range(w.path) : x.t = "wrap" => x.g > 0,
           ret |-> result,
           primitives |-> registerUsage(w.primitives, w.basics, 1),
           cache |-> [w.cache EXCEPT ![w.path] = result],
           insts |-> IF result = EMPTY_TUPLE THEN ins
                     ELSE [ins EXCEPT ![result] = [live |-> TRUE, held |-> keep,
                                                    elems |-> made.elems, regs |-> regs,
                                                    frozen |-> made.frozen,
                                                    own |-> made.own]]]

\* the callback evicting the wrapped primitive's entry at once, whatever its
\* usage count
primitiveCallbackEvicts(prims, heldValue) ==
  [k \in DOMAIN prims \ {Prim(heldValue.v)} |-> prims[k]]

\* the callback of primitiveRegistry (a FinalizationRegistry), run with the
\* held value of one registration; primitives is looked up with that value
primitiveCallback(prims, heldValue) ==
  IF heldValue \notin DOMAIN prims
  THEN [k \in DOMAIN prims \ {heldValue} |-> prims[k]]
  ELSE IF prims[heldValue].count <= 1
  THEN [k \in DOMAIN prims \ {heldValue} |-> prims[k]]
  ELSE [prims EXCEPT ![heldValue].count = @ - 1]

RECURSIVE SeqToBag(_, _)
SeqToBag(s, i) == IF i > Len(s) THEN EmptyBag ELSE SetToBag({s[i]}) (+) SeqToBag(s, i + 1)

InitTuple ==
  /\ primitives = <<>>
  /\ tupleCache = (<<>> :> NoRef)
  /\ insts = [i \in InstIds |-> NoInst]
  /\ pending = EmptyBag

\* ------------------------------------------------- a generator, step by step
\* pushToStackOpt[justValue]
pushToStackOpt(justValue, hp, stack, stackItem) ==
  IF justValue THEN pushToStack1(hp, stack, stackItem)
  ELSE pushToStack(hp, stack, stackItem)

\* `if (stackItem.node[SET]) yield getValueOpt[justValue](stackItem)`
yieldOpt(justValue, hp, out, stackItem) ==
  IF justValue THEN yieldIfSet1(hp, out, stackItem) ELSE yieldIfSet(hp, out, stackItem)

\* no generator is running
NoIterator ==
  [state |-> "idle", traverseMode |-> DepthFirst, yieldMode |-> PreOrder,
   justValue |-> FALSE, stack |-> <<>>, levels |-> <<>>, i |-> 0, out |-> <<>>,
   pops |-> <<>>, expands |-> <<>>]

\* traverser[traverseMode][yieldMode](root, prevPath, justValue) before its
\* loop: `stack` is the stack of the depth-first generators and the queue of
\* the breadth-first ones; `out` is what was yielded so far; `pops` and
\* `expands` list the nodes taken from the stack or queue and the nodes
\* handed to pushToStack so far
startIterator(root, traverseMode, yieldMode, justValue) ==
  [state |-> "running", traverseMode |-> traverseMode, yieldMode |-> yieldMode,
   justValue |-> justValue, stack |-> <<StackItem(root, <<>>)>>, levels |-> <<>>,
   i |-> 0, out |-> <<>>, pops |-> <<>>, expands |-> <<>>]

\* the state the loop condition leaves: `while (stack.length > 0)`
loopAgain(it) ==
  [it EXCEPT !.state = IF Len(it.stack) > 0 THEN "running" ELSE "done"]

\* one iteration of the loop of traverser[DepthFirst][PreOrder]
stepDepthFirstPreOrder(it, hp) ==
  LET current == it.stack[Len(it.stack)]
  IN loopAgain([it EXCEPT
       !.stack = pushToStackOpt(it.justValue, hp, Popped(it.stack), current),
       !.out = yieldOpt(it.justValue, hp, it.out, current),
       !.pops = Append(@, current.node),
       !.expands = Append(@, current.node)])

\* one iteration of the loop of traverser[DepthFirst][PostOrder]
stepDepthFirstPostOrder(it, hp) ==
  LET current == it.stack[Len(it.stack)]
      popped == [it EXCEPT !.stack = Popped(it.stack), !.pops = Append(@, current.node)]
  IN IF current.visited \/ MapSize(hp[current.node]) = 0
     THEN loopAgain([popped EXCEPT !.out = yieldOpt(it.justValue, hp, it.out, current)])
     ELSE loopAgain([popped EXCEPT
            !.stack = pushToStackOpt(it.justValue, hp,
                                     Append(Popped(it.stack),
                                            [current EXCEPT !.visited = TRUE]),
                                     current),
            !.expands = Append(@, current.node)])

\* one iteration of the loop of traverser[BreadthFirst][PreOrder]
stepBreadthFirstPreOrder(it, hp) ==
  LET stackItem == Head(it.stack)
  IN loopAgain([it EXCEPT
       !.stack = pushToStackOpt(it.justValue, hp, Tail(it.stack), stackItem),
       !.out = yieldOpt(it.justValue, hp, it.out, stackItem),
       !.pops = Append(@, stackItem.node),
       !.expands = Append(@, stackItem.node)])

\* the for loop over one level: every item handed to pushToStack
RECURSIVE nextQueueOpt(_, _, _, _, _)
nextQueueOpt(justValue, hp, queue, i, nextQueue) ==
  IF i > Len(queue) THEN nextQueue
  ELSE nextQueueOpt(justValue, hp, queue, i + 1,
                    pushToStackOpt(justValue, hp, nextQueue, queue[i]))

RECURSIVE yieldLevelOpt(_, _, _, _, _)
yieldLevelOpt(justValue, hp, level, j, out) ==
  IF j > Len(level) THEN out
  ELSE yieldLevelOpt(justValue, hp, level, j + 1, yieldOpt(justValue, hp, out, level[j]))

\* traverser[BreadthFirst][PostOrder]: one iteration of `while (queue.length)`
\* while the queue holds items, then one iteration of the loop over levels,
\* from the last level (i counts the levels still to yield)
stepBreadthFirstPostOrder(it, hp) ==
  LET nodes == [k \in 1..Len(it.stack) |-> it.stack[k].node]
      nextQueue == nextQueueOpt(it.justValue, hp, it.stack, 1, <<>>)
  IN IF Len(it.stack) > 0
     THEN [it EXCEPT !.levels = Append(@, it.stack), !.stack = nextQueue,
                     !.i = Len(it.levels) + 1,
                     !.pops = @ \o nodes, !.expands = @ \o nodes]
     ELSE [it EXCEPT !.out = yieldLevelOpt(it.justValue, hp, it.levels[it.i], 1, it.out),
                     !.i = @ - 1,
                     !.state = IF it.i > 1 THEN "running" ELSE "done"]

\* one iteration of the generator's loop
step(it, hp) ==
  IF it.traverseMode = DepthFirst
  THEN (IF it.yieldMode = PreOrder THEN stepDepthFirstPreOrder(it, hp)
        ELSE stepDepthFirstPostOrder(it, hp))
  ELSE (IF it.yieldMode = PreOrder THEN stepBreadthFirstPreOrder(it, hp)
        ELSE stepBreadthFirstPostOrder(it, hp))

InitIterator == iterator = NoIterator

\* ------------------------------------------------------------ ChunkedQueue
Items == {"a", "b"}                \* two distinguishable queue items
Hole == "hole"                     \* a slot of `new Array(BLOCK_SIZE)` never written
NoBlock == 0                       \* JS `undefined` where a Block is expected
BlockIds == 1..(MaxQueue \div BLOCK_SIZE + 2)

\* new Block(): items = new Array(BLOCK_SIZE), pushIndex = popIndex = 0
Block ==
  [items |-> [i \in 0..(BLOCK_SIZE - 1) |-> Hole], pushIndex |-> 0, popIndex |-> 0,
   next |-> NoBlock]

isFull(block) == block.pushIndex >= BLOCK_SIZE
isEmpty(block) == block.popIndex >= block.pushIndex

\* the fields of a ChunkedQueue before its constructor body runs
NoQueue == [blocks |-> <<>>, head |-> NoBlock, tail |-> NoBlock, _length |-> 0]

\* the blocks something refers to: those linked from head or from tail
RECURSIVE chainFrom(_, _)
chainFrom(q, id) ==
  IF id = NoBlock THEN {} ELSE {id} \cup chainFrom(q, q.blocks[id].next)
sweep(q) ==
  [q EXCEPT !.blocks = [id \in chainFrom(q, q.head) \cup chainFrom(q, q.tail)
                          |-> q.blocks[id]]]

\* the identity of the next block allocated, NoBlock when none is left
NewBlockId(q) ==
  LET free == BlockIds \ DOMAIN q.blocks
  IN IF free = {} THEN NoBlock ELSE CHOOSE id \in free : \A k \in free : id <= k

\* push(item)
push(q, item) ==
  LET grow == q.tail = NoBlock \/ isFull(q.blocks[q.tail])
      newBlock == NewBlockId(q)
      linked == IF q.tail # NoBlock THEN [q.blocks EXCEPT ![q.tail].next = newBlock]
                ELSE q.blocks
      q1 == IF grow
            THEN [q EXCEPT !.blocks = (newBlock :> Block) @@ linked,
                           !.tail = newBlock,
                           !.head = IF q.head = NoBlock THEN newBlock ELSE q.head]
            ELSE q
      tail == q1.blocks[q1.tail]
  IN [ok |-> ~grow \/ newBlock # NoBlock,
      queue |-> [q1 EXCEPT !.blocks[q1.tail].items[tail.pushIndex] = item,
                           !.blocks[q1.tail].pushIndex = @ + 1,
                           !._length = @ + 1]]

\* the last three lines of pop: the item at popIndex++ of the head block
takeItem(q) ==
  [ret |-> q.blocks[q.head].items[q.blocks[q.head].popIndex],
   queue |-> sweep([q EXCEPT !.blocks[q.head].popIndex = @ + 1, !._length = @ - 1])]

\* pop that never moves on to the next block
popStaysInBlock(q) ==
  IF q.head = NoBlock \/ isEmpty(q.blocks[q.head])
  THEN [ret |-> Undefined, queue |-> q]
  ELSE takeItem(q)

\* pop()
pop(q) ==
  IF q.head = NoBlock \/ isEmpty(q.blocks[q.head])
  THEN IF q.head = NoBlock \/ q.blocks[q.head].next = NoBlock
       THEN [ret |-> Undefined, queue |-> q]
       ELSE takeItem([q EXCEPT !.head = q.blocks[q.head].next])
  ELSE takeItem(q)

\* get length()
length(q) == q._length

InitQueue == chunkedQueue = NoQueue

Init == InitMap /\ InitTuple /\ InitQueue /\ InitIterator

\* new ChunkedQueue(item)
NewQueue ==
  /\ chunkedQueue = NoQueue
  /\ \E item \in Items :
       /\ push(chunkedQueue, item).ok
       /\ chunkedQueue' = push(chunkedQueue, item).queue
  /\ last' = [op |-> "new ChunkedQueue", h |-> 0, ret |-> "this", threw |-> FALSE]
  /\ UNCHANGED <<heap, maps, tupleVars, iterator>>

Push ==
  /\ chunkedQueue # NoQueue
  /\ length(chunkedQueue) < MaxQueue
  /\ \E item \in Items :
       /\ push(chunkedQueue, item).ok
       /\ chunkedQueue' = push(chunkedQueue, item).queue
  /\ last' = [op |-> "push", h |-> 0, ret |-> "void", threw |-> FALSE]
  /\ UNCHANGED <<heap, maps, tupleVars, iterator>>

Pop ==
  /\ chunkedQueue # NoQueue
  /\ chunkedQueue' = pop(chunkedQueue).queue
  /\ last' = [op |-> "pop", h |-> 0, ret |-> pop(chunkedQueue).ret, threw |-> FALSE]
  /\ UNCHANGED <<heap, maps, tupleVars, iterator>>

NextQueue == NewQueue \/ Push \/ Pop
SpecQueue == Init /\ [][NextQueue]_vars

\* a caller calls tuple(elements) and keeps the result or not
Tuple ==
  \E elements \in TupleInputs, keep \in BOOLEAN :
    LET r == tuple(primitives, tupleCache, insts, pending, elements, keep)
    IN /\ r.ok
       /\ \A k \in DOMAIN r.primitives : r.primitives[k].count <= MaxUse
       /\ primitives' = r.primitives
       /\ tupleCache' = r.cache
       /\ insts' = r.insts
       /\ last' = [op |-> "tuple", h |-> 0, threw |-> FALSE,
                   ret |-> IF r.ret = EMPTY_TUPLE THEN "empty"
                           ELSE IF insts[r.ret].live THEN "cached" ELSE "created"]
       /\ UNCHANGED <<pending, heap, maps, chunkedQueue, iterator>>

\* the caller drops its last strong reference to an instance
Release ==
  \E i \in InstIds :
    /\ insts[i].live /\ insts[i].held
    /\ insts' = [insts EXCEPT ![i].held = FALSE]
    /\ last' = [op |-> "release", h |-> 0, ret |-> "void", threw |-> FALSE]
    /\ UNCHANGED <<primitives, tupleCache, pending, heap, maps, chunkedQueue, iterator>>

\* the host collects an instance nothing refers to strongly: its WeakRef
\* empties and its registrations become due
CollectInstance ==
  \E i \in InstIds :
    /\ insts[i].live /\ ~insts[i].held
    /\ insts' = [insts EXCEPT ![i] = NoInst]
    /\ tupleCache' = [path \in DOMAIN tupleCache |->
                        IF tupleCache[path] = i THEN Dead ELSE tupleCache[path]]
    /\ pending' = pending (+) SeqToBag(insts[i].regs, 1)
    /\ last' = [op |-> "collect", h |-> 0, ret |-> "void", threw |-> FALSE]
    /\ UNCHANGED <<primitives, heap, maps, chunkedQueue, iterator>>

\* the host runs one due finalization callback
Finalize ==
  \E heldValue \in BagToSet(pending) :
    /\ primitives' = primitiveCallback(primitives, heldValue)
    /\ pending' = pending (-) SetToBag({heldValue})
    /\ last' = [op |-> "finalize", h |-> 0, ret |-> "void", threw |-> FALSE]
    /\ UNCHANGED <<tupleCache, insts, heap, maps, chunkedQueue, iterator>>

NextTuple == Tuple \/ Release \/ CollectInstance \/ Finalize
SpecTuple == Init /\ [][NextTuple]_vars

\* the keys a caller passes to handle h
KeysFor(h) == {p \in Paths : Len(maps[h].basePath) + Len(p) <= MaxLen}

CountsInCap(hp) == \A n \in NodeIds : hp[n].COUNT \in -MaxCount..MaxCount

\* the call returns (or throws): the heap it leaves, and what the caller saw
Return(hp, mp, op, h, ret, threw) ==
  /\ CountsInCap(hp)
  /\ heap' = Collect(hp, mp).heap
  /\ maps' = Collect(hp, mp).maps
  /\ last' = [op |-> op, h |-> h, ret |-> ret, threw |-> threw]
  /\ UNCHANGED <<tupleVars, chunkedQueue, iterator>>

Set(h, V) ==
  /\ maps[h].live
  /\ \E p \in KeysFor(h), v \in V :
       LET r == set(heap, maps, h, p, v)
       IN r.ok /\ Return(r.heap, maps, "set", h, r.ret, r.threw)

GetOrSet(h, V) ==
  /\ maps[h].live
  /\ \E p \in KeysFor(h), v \in V :
       LET r == getOrSet(heap, maps, h, p, v)
       IN r.ok /\ Return(r.heap, maps, "getOrSet", h, r.ret, r.threw)

Delete(h) ==
  /\ maps[h].live
  /\ \E p \in KeysFor(h), deleteSubTree \in BOOLEAN :
       LET r == delete(heap, maps, h, p, deleteSubTree)
       IN Return(r.heap, maps, "delete", h, r.ret, r.threw)

Clear(h) ==
  /\ maps[h].live
  /\ Return(clear(heap, maps, h), maps, "clear", h, "void", FALSE)

GetSubMap(h, h2) ==
  /\ maps[h].live /\ ~maps[h2].live
  /\ \E b \in KeysFor(h) :
       LET r == getSubMap(heap, maps, h, b)
       IN /\ r.ok
          /\ Return(r.heap, [maps EXCEPT ![h2] = r.inst], "getSubMap", h, "view", FALSE)

\* every NestedMap operation, through the container and through its view
Next ==
  \/ \E h \in Handles : Set(h, Values)
  \/ \E h \in Handles : GetOrSet(h, Values)
  \/ \E h \in Handles : Delete(h)
  \/ \E h \in Handles : Clear(h)
  \/ GetSubMap(M, Sub)

Spec == Init /\ [][Next]_vars

\* a standalone container: set, getOrSet, delete and clear
NextMap == Set(M, Defined) \/ GetOrSet(M, Defined) \/ Delete(M) \/ Clear(M)
SpecMap == Init /\ [][NextMap]_vars

\* a standalone container: set and delete only
NextSetDelete == Set(M, Defined) \/ Delete(M)
SpecSetDelete == Init /\ [][NextSetDelete]_vars

\* a container and one view of it: set and delete through either
NextView == GetSubMap(M, Sub) \/ (\E h \in Handles : Set(h, {"a"})) \/ (\E h \in Handles : Delete(h))
SpecView == Init /\ [][NextView]_vars


\* a container, a view of it and a view of that view (kept in the third
\* handle): set and delete through the inner view
NextViewOfView ==
  \/ GetSubMap(M, Sub) \/ GetSubMap(Sub, Copy)
  \/ Set(Copy, {"a"}) \/ Delete(Copy)
SpecViewOfView == Init /\ [][NextViewOfView]_vars

\* a container filled through itself or its view, and the view cleared
NextViewClear ==
  \/ GetSubMap(M, Sub)
  \/ (\E h \in {M, Sub} : Set(h, {"a"}))
  \/ Clear(Sub)
SpecViewClear == Init /\ [][NextViewClear]_vars

\* a standalone container called with keys that are not arrays
SetKey(h) ==
  /\ maps[h].live
  /\ \E k \in ScalarKeys, v \in Defined :
       LET r == setKey(heap, maps, h, k, v)
       IN r.ok /\ Return(r.heap, maps, "set", h, r.ret, r.threw)

GetOrSetKey(h) ==
  /\ maps[h].live
  /\ \E k \in ScalarKeys, v \in Defined :
       LET r == getOrSetKey(heap, maps, h, k, v)
       IN r.ok /\ Return(r.heap, maps, "getOrSet", h, r.ret, r.threw)

DeleteKey(h) ==
  /\ maps[h].live
  /\ \E k \in ScalarKeys :
       LET r == deleteKey(heap, maps, h, k)
       IN Return(r.heap, maps, "delete", h, r.ret, r.threw)

NextKey == SetKey(M) \/ GetOrSetKey(M) \/ DeleteKey(M)
SpecKey == Init /\ [][NextKey]_vars

\* a standalone container: set (any value, undefined included) and delete
NextAnyValue == Set(M, Values) \/ Delete(M)
SpecAnyValue == Init /\ [][NextAnyValue]_vars


\* ----------------------------------------------- clone and traversal actions
\* c = h.clone() or c = h.clone(b), kept in h2
Clone(h, h2) ==
  /\ maps[h].live /\ ~maps[h2].live
  /\ \E hasBasePath \in BOOLEAN, b \in KeysFor(h) :
       LET r == clone(heap, maps, h, hasBasePath, b, h2)
       IN /\ hasBasePath \/ b = <<>>
          /\ r.ok
          /\ Return(r.heap, [maps EXCEPT ![h2] = r.inst], "clone", h,
                    IF hasBasePath THEN "clone(b)" ELSE "clone()", FALSE)

\* a container and a clone of it (whole or of a subtree): set, delete and
\* clear on either; the callers of the clone store another value than those
\* of the source
NextClone ==
  \/ Clone(M, Copy)
  \/ Set(M, {"a"}) \/ Set(Copy, {"b"})
  \/ \E h \in {M, Copy} : Delete(h)
  \/ \E h \in {M, Copy} : Clear(h)
SpecClone == Init /\ [][NextClone]_vars

\* the return of a call on a container whose counts may reach MaxEntries
ReturnUpTo(hp, mp, op, h, ret, threw) ==
  /\ \A n \in NodeIds : hp[n].COUNT \in -1..MaxEntries
  /\ heap' = Collect(hp, mp).heap
  /\ maps' = Collect(hp, mp).maps
  /\ last' = [op |-> op, h |-> h, ret |-> ret, threw |-> threw]
  /\ UNCHANGED <<tupleVars, chunkedQueue, iterator>>

SetUpTo(h, V) ==
  /\ maps[h].live
  /\ \E p \in KeysFor(h), v \in V :
       LET r == set(heap, maps, h, p, v)
       IN r.ok /\ ReturnUpTo(r.heap, maps, "set", h, r.ret, r.threw)

DeleteUpTo(h) ==
  /\ maps[h].live
  /\ \E p \in KeysFor(h), deleteSubTree \in BOOLEAN :
       LET r == delete(heap, maps, h, p, deleteSubTree)
       IN ReturnUpTo(r.heap, maps, "delete", h, r.ret, r.threw)

ClearUpTo(h) ==
  /\ maps[h].live
  /\ ReturnUpTo(clear(heap, maps, h), maps, "clear", h, "void", FALSE)

\* [...h.entries({ traverseMode, yieldMode })]: the iterator is run to its end
Entries(h) ==
  /\ maps[h].live
  /\ \E traverseMode \in TraverseModes, yieldMode \in YieldModes :
       last' = [op |-> "entries", h |-> h, threw |-> FALSE,
                ret |-> [traverseMode |-> traverseMode, yieldMode |-> yieldMode,
                         out |-> entries(heap, maps, h, Options(traverseMode, yieldMode))]]
  /\ UNCHANGED <<heap, maps>>
  /\ UNCHANGED <<tupleVars, chunkedQueue, iterator>>

\* [...h.values({ traverseMode, yieldMode })]
Values_(h) ==
  /\ maps[h].live
  /\ \E traverseMode \in TraverseModes, yieldMode \in YieldModes :
       last' = [op |-> "values", h |-> h, threw |-> FALSE,
                ret |-> [traverseMode |-> traverseMode, yieldMode |-> yieldMode,
                         out |-> values(heap, maps, h, Options(traverseMode, yieldMode))]]
  /\ UNCHANGED <<heap, maps>>
  /\ UNCHANGED <<tupleVars, chunkedQueue, iterator>>

\* a standalone container that is filled with two values and whose values
\* are listed
NextValues == SetUpTo(M, Defined) \/ Values_(M)
SpecValues == Init /\ [][NextValues]_vars

\* a standalone container that is filled, emptied and traversed
NextTraverse == SetUpTo(M, {"a"}) \/ DeleteUpTo(M) \/ ClearUpTo(M) \/ Entries(M)
SpecTraverse == Init /\ [][NextTraverse]_vars

\* a standalone container: getOrSet (the factory may return any value) and
\* delete
NextGetOrSet == GetOrSet(M, Values) \/ Delete(M)
SpecGetOrSet == Init /\ [][NextGetOrSet]_vars

\* ------------------------------------------------------ generator actions
\* h.entries(options) or h.values(options): the generator is made
Iterate(h) ==
  /\ maps[h].live
  /\ iterator.state = "idle"
  /\ \E traverseMode \in TraverseModes, yieldMode \in YieldModes, justValue \in BOOLEAN :
       iterator' = startIterator(maps[h].root, traverseMode, yieldMode, justValue)
  /\ last' = [op |-> "iterate", h |-> h, ret |-> "iterator", threw |-> FALSE]
  /\ UNCHANGED <<heap, maps, tupleVars, chunkedQueue>>

\* the consumer asks for more: the loop makes one iteration
LoopStep ==
  /\ iterator.state = "running"
  /\ iterator' = step(iterator, heap)
  /\ UNCHANGED <<heap, maps, last, tupleVars, chunkedQueue>>

\* the consumer drops the generator that has returned
Drop ==
  /\ iterator.state = "done"
  /\ iterator' = NoIterator
  /\ UNCHANGED <<heap, maps, last, tupleVars, chunkedQueue>>

\* the container is filled while no generator is running
Fill ==
  /\ iterator.state = "idle"
  /\ SetUpTo(M, {"a"})

\* a standalone container that is filled and traversed step by step; the
\* consumer of a generator keeps asking until it returns
NextIterate == Fill \/ Iterate(M) \/ LoopStep \/ Drop
SpecIterate == Init /\ [][NextIterate]_vars /\ WF_vars(LoopStep)

\* ---------------------------------------------------------------- NestedSet
\* class NestedSet: #map = new NestedMap<K, 1>(); h is the handle of #map
One == "1"     \* the value 1 that add stores

NestedSet_add(hp, mp, h, value) == set(hp, mp, h, value, One)
NestedSet_delete(hp, mp, h, value) == delete(hp, mp, h, value, FALSE)
NestedSet_clear(hp, mp, h) == clear(hp, mp, h)
NestedSet_has(hp, mp, h, value) == has(hp, mp, h, value)
NestedSet_size(hp, mp, h) == size(hp, mp, h)
NestedSet_keys(hp, mp, h, options) == keys(hp, mp, h, options)
NestedSet_values(hp, mp, h, options) == keys(hp, mp, h, options)

Add(h) ==
  /\ maps[h].live
  /\ \E value \in KeysFor(h) :
       LET r == NestedSet_add(heap, maps, h, value)
       IN r.ok /\ Return(r.heap, maps, "add", h, r.ret, r.threw)

Remove(h) ==
  /\ maps[h].live
  /\ \E value \in KeysFor(h) :
       LET r == NestedSet_delete(heap, maps, h, value)
       IN Return(r.heap, maps, "delete", h, r.ret, r.threw)

Empty(h) ==
  /\ maps[h].live
  /\ Return(NestedSet_clear(heap, maps, h), maps, "clear", h, "void", FALSE)

\* a NestedSet: add, delete and clear
NextSet == Add(M) \/ Remove(M) \/ Empty(M)
SpecSet == Init /\ [][NextSet]_vars

\* ------------------------------------------------- what a container holds
\* the paths that currently have a value set (the SET flag), seen from h
EntryPaths(hp, mp, h) ==
  {p \in Paths : LET n == getNode(hp, mp, h, p)
                 IN n # NoNode /\ hp[n].SET = 1}

\* p is a prefix of q (q is at or below p)
IsPrefix(p, q) == Len(p) <= Len(q) /\ \A i \in 1..Len(p) : p[i] = q[i]

EntriesBelow(hp, mp, h, p) == {q \in EntryPaths(hp, mp, h) : IsPrefix(p, q)}

RECURSIVE SumCounts(_, _, _)
SumCounts(hp, map, i) ==
  IF i > Len(map) THEN 0 ELSE hp[map[i].node].COUNT + SumCounts(hp, map, i + 1)

\* count(N) = (1 if N has a value else 0) + the sum of count over N's children
CountOk(hp, n) == hp[n].COUNT = hp[n].SET + SumCounts(hp, hp[n].MAP, 1)

TreeOf(hp, mp, h) == Closure(hp, {mp[h].root})

\* what is at path p of container h: the node's value flag, value and count
\* and the keys of its children in Map order, or nothing
NodeAt(hp, mp, h, p) ==
  LET n == getNode(hp, mp, h, p)
  IN IF n = NoNode THEN [there |-> FALSE]
     ELSE [there |-> TRUE, SET |-> hp[n].SET, VAL |-> hp[n].VAL, COUNT |-> hp[n].COUNT,
           keys |-> [i \in 1..Len(hp[n].MAP) |-> hp[n].MAP[i].key]]

\* everything container h holds, address-free
Contents(hp, mp, h) == [p \in Paths |-> NodeAt(hp, mp, h, p)]

\* the results of the four traversal modes
AllEntries(hp, mp, h) ==
  [o \in TraverseModes \X YieldModes |-> entries(hp, mp, h, Options(o[1], o[2]))]

\* ------------------------------------------------------------------ claims
\* C1: for a standalone NestedMap, after any sequence of set, getOrSet,
\* delete (with or without deleteSubTree) and clear calls on paths of any
\* length, the empty path included, size equals the number of distinct paths
\* that currently have a value set.
C1_SizeIsEntryCount ==
  size(heap, maps, M) = Cardinality(EntryPaths(heap, maps, M))

\* C2: every node reachable from the root satisfies count(N) = (1 if N has a
\* value else 0) + the sum of count over its children, and nodeSize(path) is
\* the number of entries stored at or below path (0 when no node is there).
C2_CountInvariant ==
  /\ \A n \in TreeOf(heap, maps, M) : CountOk(heap, n)
  /\ \A p \in Paths :
       nodeSize(heap, maps, M, p) = Cardinality(EntriesBelow(heap, maps, M, p))

\* C3: from any state reached by set and delete calls, delete(path, true) on a
\* node that has a value or a child returns true, removes every entry at or
\* below path and none outside it, and decreases size by exactly the number
\* of entries removed.
C3_SubtreeDelete ==
  \A p \in Paths :
    LET n == getNode(heap, maps, M, p)
        r == delete(heap, maps, M, p, TRUE)
        before == EntryPaths(heap, maps, M)
        after == EntryPaths(r.heap, maps, M)
    IN (n # NoNode /\ (heap[n].SET = 1 \/ MapSize(heap[n]) > 0)) =>
         /\ r.ret = "true"
         /\ after = before \ EntriesBelow(heap, maps, M, p)
         /\ \A q \in after : get(r.heap, maps, M, q) = get(heap, maps, M, q)
         /\ size(r.heap, maps, M) = size(heap, maps, M) - Cardinality(before \ after)

\* C4: after set(p, v), get(q) returns v and has(q) is true for every path q
\* element-wise equal to p; set on a path that already has a value overwrites
\* it without changing size; get and has of every other path are unchanged;
\* get(q) is absent when a segment of q is missing or its node has no value.
C4_SetGetRoundTrip ==
  /\ \A p \in Paths, v \in Values :
       LET r == set(heap, maps, M, p, v)
           q == [i \in 1..Len(p) |-> p[i]]
       IN r.ok =>
            /\ get(r.heap, maps, M, q) = v
            /\ has(r.heap, maps, M, q)
            /\ p \in EntryPaths(heap, maps, M) =>
                 size(r.heap, maps, M) = size(heap, maps, M)
            /\ \A o \in Paths \ {p} :
                 /\ get(r.heap, maps, M, o) = get(heap, maps, M, o)
                 /\ has(r.heap, maps, M, o) = has(heap, maps, M, o)
  /\ \A q \in Paths \ EntryPaths(heap, maps, M) : get(heap, maps, M, q) = Undefined

\* C5: delete(path, false) returns true exactly when path had a value set;
\* after true, has(path) is false, get(path) is absent, size is one less and
\* every other entry keeps its value; after false the entries, size and node
\* counts are unchanged.
C5_PointDelete ==
  \A p \in Paths :
    LET r == delete(heap, maps, M, p, FALSE)
        before == EntryPaths(heap, maps, M)
    IN /\ ~r.threw
       /\ (r.ret = "true") = (p \in before)
       /\ r.ret = "true" =>
            /\ ~has(r.heap, maps, M, p)
            /\ get(r.heap, maps, M, p) = Undefined
            /\ size(r.heap, maps, M) = size(heap, maps, M) - 1
            /\ EntryPaths(r.heap, maps, M) = before \ {p}
            /\ \A q \in before \ {p} : get(r.heap, maps, M, q) = get(heap, maps, M, q)
       /\ r.ret = "false" => r.heap = heap


\* C6: for sub = m.getSubMap(b), in every state reached by set and delete
\* calls made through m and through sub, sub.get(r) = m.get(b ++ r) and
\* sub.has(r) = m.has(b ++ r) for every relative path r.
C6_ViewAliasing ==
  maps[Sub].live =>
    \A r \in KeysFor(Sub) :
      /\ get(heap, maps, Sub, r) = get(heap, maps, M, maps[Sub].basePath \o r)
      /\ has(heap, maps, Sub, r) = has(heap, maps, M, maps[Sub].basePath \o r)

\* C7: for sub = m.getSubMap(b), after any set and delete calls through sub
\* and m, m.size is the number of entries of m, and sub.size equals
\* m.nodeSize(b), which is the number of entries stored at or below b.
C7_ViewSizes ==
  maps[Sub].live =>
    /\ size(heap, maps, M) = Cardinality(EntryPaths(heap, maps, M))
    /\ size(heap, maps, Sub) = nodeSize(heap, maps, M, maps[Sub].basePath)
    /\ nodeSize(heap, maps, M, maps[Sub].basePath)
         = Cardinality(EntriesBelow(heap, maps, M, maps[Sub].basePath))

\* C8: delete through a sub-view returns a boolean and never raises, for
\* every relative path and both deleteSubTree values; afterwards the entry is
\* absent from the origin and the decrement has reached every ancestor up to
\* the true root.
C8_ViewDeleteNeverRaises ==
  maps[Sub].live =>
    \A r \in KeysFor(Sub), deleteSubTree \in BOOLEAN :
      LET res == delete(heap, maps, Sub, r, deleteSubTree)
          full == maps[Sub].basePath \o r
          removed == Cardinality(EntryPaths(heap, maps, Sub))
                       - Cardinality(EntryPaths(res.heap, maps, Sub))
          chain == maps[Sub].baseNode
      IN /\ ~res.threw
         /\ res.ret \in {"true", "false"}
         /\ res.ret = "true" =>
              /\ ~has(res.heap, maps, M, full)
              /\ \A i \in 1..(Len(chain) - 1) :
                   res.heap[chain[i]].COUNT = heap[chain[i]].COUNT - removed

C12_CloneIndependent ==
  maps[Copy].live =>
    /\ TreeOf(heap, maps, M) \cap TreeOf(heap, maps, Copy) = {}
    /\ \A pair \in {<<M, Copy>>, <<Copy, M>>} :
         LET h == pair[1]
             other == pair[2]
             kept == Contents(heap, maps, other)
         IN /\ \A p \in Paths, v \in Values :
                 LET r == set(heap, maps, h, p, v)
                 IN r.ok => Contents(r.heap, maps, other) = kept
            /\ \A p \in Paths, deleteSubTree \in BOOLEAN :
                 Contents(delete(heap, maps, h, p, deleteSubTree).heap, maps, other) = kept
            /\ Contents(clear(heap, maps, h), maps, other) = kept

\* the case of C12: an entry was just deleted from the clone, which still
\* holds another value it got from the source, and the source holds both
C12_Witness ==
  /\ last.op = "delete" /\ last.h = Copy /\ last.ret = "true"
  /\ \E p \in EntryPaths(heap, maps, Copy) : get(heap, maps, Copy, p) = "a"
  /\ \E p \in EntryPaths(heap, maps, M) \ EntryPaths(heap, maps, Copy) : Len(p) > 0

\* the keys of a traversal result, and where a key stands in it
KeySeq(e) == [i \in 1..Len(e) |-> e[i].key]
IndexOf(e, key) == CHOOSE i \in 1..Len(e) : e[i].key = key

\* the last call was entries in the given modes and yielded these keys
Yielded(traverseMode, yieldMode, keySeq) ==
  /\ last.op = "entries"
  /\ last.ret.traverseMode = traverseMode /\ last.ret.yieldMode = yieldMode
  /\ KeySeq(last.ret.out) = keySeq

\* C13: in every container state and each of the four (traverseMode,
\* yieldMode) combinations, entries() yields every path that has a value
\* exactly once, paired with its current value, and nothing for a node
\* without a value; so the four modes yield the same set of entries, of
\* cardinality size.
C13_EntriesComplete ==
  \A o \in TraverseModes \X YieldModes :
    LET e == AllEntries(heap, maps, M)[o]
    IN /\ {e[i].key : i \in 1..Len(e)} = EntryPaths(heap, maps, M)
       /\ \A i, j \in 1..Len(e) : e[i].key = e[j].key => i = j
       /\ \A i \in 1..Len(e) : e[i].value = get(heap, maps, M, e[i].key)
       /\ Len(e) = size(heap, maps, M)

C15_YieldTiming ==
  \A o \in TraverseModes \X YieldModes :
    LET e == AllEntries(heap, maps, M)[o]
    IN \A i, j \in 1..Len(e) :
         (e[i].key # e[j].key /\ IsPrefix(e[i].key, e[j].key)) =>
           IF o[2] = PreOrder THEN i < j ELSE j < i

\* the case of C15: a chain of three entries, yielded deepest first by
\* depth-first post-order
C15_Witness ==
  Yielded(DepthFirst, PostOrder, << <<1, 1>>, <<1>>, <<>> >>)

\* C16: breadth-first post-order yields the levels deepest first and, within
\* a level, the entries in the order in which breadth-first pre-order yields
\* that level.
C16_BreadthFirstPostOrder ==
  LET post == entries(heap, maps, M, Options(BreadthFirst, PostOrder))
      pre == entries(heap, maps, M, Options(BreadthFirst, PreOrder))
  IN /\ {post[i] : i \in 1..Len(post)} = {pre[i] : i \in 1..Len(pre)}
     /\ Len(post) = Len(pre)
     /\ \A i, j \in 1..Len(post) :
          i < j =>
            /\ Len(post[i].key) >= Len(post[j].key)
            /\ Len(post[i].key) = Len(post[j].key) =>
                 IndexOf(pre, post[i].key) < IndexOf(pre, post[j].key)

\* the case of C16: two entries on one level and one below the first of
\* them, yielded by breadth-first post-order
C16_Witness ==
  /\ Yielded(BreadthFirst, PostOrder, << <<1, 1>>, <<1>>, <<2>> >>)
  /\ NodeAt(heap, maps, M, <<>>).keys = <<1, 2>>

\* C17: after clear(), size is 0, has(p) is false and get(p) is absent for
\* every path p, the empty path [] included, and traversal yields nothing.
C17_ClearEmpties ==
  LET hp == clear(heap, maps, M)
  IN /\ size(hp, maps, M) = 0
     /\ \A p \in Paths : ~has(hp, maps, M, p) /\ get(hp, maps, M, p) = Undefined
     /\ \A o \in TraverseModes \X YieldModes : AllEntries(hp, maps, M)[o] = <<>>

\* C18: getOrSet(path, factory) returns the value currently set at path
\* without invoking factory and leaves entries and size unchanged; when no
\* value is set it invokes factory once, stores the result at path as set
\* does (size increases by 1) and returns it.
C18_GetOrSet ==
  \A p \in Paths, v \in Values :
    LET r == getOrSet(heap, maps, M, p, v)
        before == EntryPaths(heap, maps, M)
    IN r.ok =>
         /\ \A q \in before \ {p} : get(r.heap, maps, M, q) = get(heap, maps, M, q)
         /\ IF p \in before
            THEN /\ ~r.called
                 /\ r.ret = get(heap, maps, M, p)
                 /\ get(r.heap, maps, M, p) = get(heap, maps, M, p)
                 /\ EntryPaths(r.heap, maps, M) = before
                 /\ size(r.heap, maps, M) = size(heap, maps, M)
            ELSE /\ r.called
                 /\ r.ret = v
                 /\ get(r.heap, maps, M, p) = v
                 /\ EntryPaths(r.heap, maps, M) = before \cup {p}
                 /\ size(r.heap, maps, M) = size(heap, maps, M) + 1

\* C19: has(path) is true exactly when a value is currently set at path,
\* that is when path is one of the entries counted by size, whatever the
\* value is, the host's undefined included.
C19_HasIffSet ==
  \A p \in Paths : has(heap, maps, M, p) <=> p \in EntryPaths(heap, maps, M)

\* C20: traversal of sub = m.getSubMap(b), in every mode, yields exactly the
\* pairs (r, v) such that m holds value v at b ++ r, with keys relative to b,
\* and nothing for entries of m outside b.
C20_ViewTraversal ==
  maps[Sub].live =>
    \A o \in TraverseModes \X YieldModes :
      LET e == AllEntries(heap, maps, Sub)[o]
          b == maps[Sub].basePath
      IN /\ {<<e[i].key, e[i].value>> : i \in 1..Len(e)}
              = {<<r, get(heap, maps, M, b \o r)>> :
                   r \in {x \in KeysFor(Sub) : b \o x \in EntryPaths(heap, maps, M)}}
         /\ \A i, j \in 1..Len(e) : e[i].key = e[j].key => i = j

LiveInsts == {i \in InstIds : insts[i].live}

\* C9: in every interleaving of tuple calls, collections and finalization
\* callbacks, a call whose elements are pairwise identical, in the same order
\* and length, to those of an earlier call returns the very instance of that
\* call while it is still strongly referenced; and no two live canonical
\* instances exist for one element sequence.
C9_SameInstance ==
  /\ \A i, j \in LiveInsts : insts[i].elems = insts[j].elems => i = j
  /\ \A elements \in TupleInputs, keep \in BOOLEAN, i \in LiveInsts :
       (insts[i].held /\ insts[i].elems = elements) =>
         tuple(primitives, tupleCache, insts, pending, elements, keep).ret = i

\* the case of C9: the last call got a cached instance that is still held,
\* after another instance sharing a primitive with it was collected and all
\* its finalization callbacks ran
C9_Witness ==
  /\ last.op = "tuple" /\ last.ret = "cached"
  /\ \E i \in LiveInsts : insts[i].held /\ insts[i].elems = <<Prim(1)>>
  /\ \E path \in DOMAIN tupleCache :
       tupleCache[path] = Dead /\ Wrapper(1, 1) \in Range(path)
  /\ pending = EmptyBag

\* C10: sequences that differ in an element or in length (one may be a strict
\* prefix of the other) get different instances, also when the calls are
\* interleaved: of tuple(e1), tuple(e2), tuple(e1), the first and the third
\* results are the same instance and the second is another one.
C10_DistinctInstances ==
  \A e1, e2 \in TupleInputs :
    LET r1 == tuple(primitives, tupleCache, insts, pending, e1, TRUE)
        r2 == tuple(r1.primitives, r1.cache, r1.insts, pending, e2, TRUE)
        r3 == tuple(r2.primitives, r2.cache, r2.insts, pending, e1, TRUE)
    IN (e1 # e2 /\ r1.ok /\ r2.ok) => (r1.ret # r2.ret /\ r3.ret = r1.ret)

\* the case of C10: a sequence and a strict prefix of it are both interned
\* and alive, and the last call got the cached one
C10_Witness ==
  /\ last.op = "tuple" /\ last.ret = "cached"
  /\ \E i, j \in LiveInsts :
       /\ i # j
       /\ insts[i].elems = <<Prim(1)>>
       /\ insts[j].elems = <<Prim(1), Prim(2)>>

\* --------------------------------------------------- views after detachment
\* the node the view aliases is still the node at basePath of the origin
Attached ==
  maps[Sub].live /\ getNode(heap, maps, M, maps[Sub].basePath) = maps[Sub].root

\* the view is logically empty
ViewEmpty ==
  /\ size(heap, maps, Sub) = 0
  /\ \A r \in Paths : ~has(heap, maps, Sub, r)
  /\ \A o \in TraverseModes \X YieldModes : AllEntries(heap, maps, Sub)[o] = <<>>

\* C21: if an operation on the origin detaches the node that a sub-view
\* aliases (a delete that prunes or subtree-deletes that node or one of its
\* ancestors), then on its next access the view is logically empty: its size
\* is 0, has(r) is false for every r, and traversal yields nothing.
C21_DetachedViewEmpty ==
  [][(Attached /\ last'.h = M /\ maps'[Sub].live /\ ~Attached') => ViewEmpty']_vars

\* ------------------------------------------------- subtrees: clone, basePath
\* the pairs (r, v) such that container h holds v at b ++ r
PairsBelow(hp, mp, h, b) ==
  {<<r, get(hp, mp, h, b \o r)>> :
     r \in {x \in Paths : Len(b) + Len(x) <= MaxLen /\ b \o x \in EntryPaths(hp, mp, h)}}

PairSet(e) == {<<e[i].key, e[i].value>> : i \in 1..Len(e)}

\* C22: m.clone(b) for a path b that exists in m returns a container whose
\* entries are exactly the pairs (r, v) with m holding v at b ++ r and whose
\* size is the number of those entries; for a path b that does not exist in m
\* it returns an empty container (size 0, no entries).
C22_CloneSubtree ==
  \A b \in Paths :
    LET r == clone(heap, maps, M, TRUE, b, Copy)
        mp == [maps EXCEPT ![Copy] = r.inst]
        e == entries(r.heap, mp, Copy, Options(DepthFirst, PreOrder))
    IN (~maps[Copy].live /\ r.ok) =>
         IF getNode(heap, maps, M, b) # NoNode
         THEN /\ PairSet(e) = PairsBelow(heap, maps, M, b)
              /\ Len(e) = Cardinality(PairsBelow(heap, maps, M, b))
              /\ size(r.heap, mp, Copy) = Cardinality(PairsBelow(heap, maps, M, b))
         ELSE /\ size(r.heap, mp, Copy) = 0
              /\ e = <<>>

\* C23: entries({basePath: p}) yields exactly the entries stored at or below
\* p, each keyed by its full path from the container's root; it yields
\* nothing when no node exists at p; and for every key b that is not a
\* sequence it yields the same as entries({basePath: [b]}).
C23_BasePathEntries ==
  \A o \in TraverseModes \X YieldModes :
    /\ \A p \in Paths :
         LET e == entries(heap, maps, M, OptionsAt(p, o[1], o[2]))
             below == EntriesBelow(heap, maps, M, p)
         IN /\ PairSet(e) = {<<q, get(heap, maps, M, q)>> : q \in below}
            /\ Len(e) = Cardinality(below)
            /\ getNode(heap, maps, M, p) = NoNode => e = <<>>
    /\ \A b \in Keys \cup {FalsyKey} :
         entries(heap, maps, M, ScalarOptions(b, o[1], o[2]))
           = entries(heap, maps, M, OptionsAt(<<b>>, o[1], o[2]))

\* ---------------------------------------------------------------- NestedSet
\* the keys the set says it has
Members(hp, mp, h) == {k \in Paths : NestedSet_has(hp, mp, h, k)}

\* C27: NestedSet behaves as a set of sequences under value-based equality:
\* after any add, delete and clear calls, has(k) is true exactly for the keys
\* added and not since deleted or cleared, add of a key already present
\* changes nothing, size is the number of such keys, and keys()/values()
\* yield each of them exactly once.
C27_NestedSet ==
  LET S == Members(heap, maps, M)
      ks == NestedSet_keys(heap, maps, M, Options(DepthFirst, PreOrder))
      vs == NestedSet_values(heap, maps, M, Options(DepthFirst, PreOrder))
  IN /\ NestedSet_size(heap, maps, M) = Cardinality(S)
     /\ Range(ks) = S /\ Len(ks) = Cardinality(S) /\ vs = ks
     /\ \A k \in Paths :
          LET r == NestedSet_add(heap, maps, M, k)
          IN r.ok =>
               /\ Members(r.heap, maps, M) = S \cup {k}
               /\ k \in S => NestedSet_size(r.heap, maps, M) = NestedSet_size(heap, maps, M)
     /\ \A k \in Paths :
          LET r == NestedSet_delete(heap, maps, M, k)
          IN /\ Members(r.heap, maps, M) = S \ {k}
             /\ (r.ret = "true") = (k \in S)
     /\ Members(NestedSet_clear(heap, maps, M), maps, M) = {}

\* the array behind an instance id
ArrayOf(ins, id) == IF id = EMPTY_TUPLE THEN EmptyArray ELSE ins[id]

\* C24: every array tuple returns is frozen, holds exactly the elements of
\* the input in the input's order, and is a copy made by the call: it is not
\* the caller's array, which is left unfrozen
C24_FrozenCopy ==
  /\ \A i \in LiveInsts : isFrozen(insts[i]) /\ insts[i].own
  /\ \A elements \in TupleInputs, keep \in BOOLEAN :
       LET r == tuple(primitives, tupleCache, insts, pending, elements, keep)
       IN r.ok => /\ isFrozen(ArrayOf(r.insts, r.ret))
                  /\ ArrayOf(r.insts, r.ret).own
                  /\ ArrayOf(r.insts, r.ret).elems = elements

\* a call has just made the instance of a two-element input mixing an
\* object and a primitive
C24_Witness ==
  /\ last.op = "tuple" /\ last.ret = "created"
  /\ \E i \in LiveInsts : /\ insts[i].elems = <<Obj(1), Prim(1)>>
                           /\ isFrozen(insts[i]) /\ insts[i].own

\* C25: tuple of a sequence of length 0 returns the one canonical empty
\* instance, whatever was interned, collected or finalized before; the call
\* touches neither the cache nor the wrapper table, and the empty instance is
\* no collectable instance and is never replaced by one
C25_EmptyCanonical ==
  /\ EMPTY_TUPLE \notin InstIds
  /\ tupleCache[<<>>] = NoRef
  /\ \A i \in LiveInsts : insts[i].elems # <<>>
  /\ \A keep \in BOOLEAN :
       LET r == tuple(primitives, tupleCache, insts, pending, <<>>, keep)
       IN /\ r.ok /\ r.ret = EMPTY_TUPLE
          /\ r.primitives = primitives /\ r.cache = tupleCache /\ r.insts = insts

\* tuple([]) has just returned the empty instance after an instance was
\* collected and while another is alive
C25_Witness ==
  /\ last.op = "tuple" /\ last.ret = "empty"
  /\ \E path \in DOMAIN tupleCache : tupleCache[path] = Dead
  /\ LiveInsts # {}

\* the node a call of tuple(elements) ends at, and the WeakRef it finds there
WalkOf(elements) ==
  tupleWalk(primitives, tupleCache,
            WrappersInUse(primitives, tupleCache, insts, pending),
            elements, 1, <<>>, <<>>)
RefAt(elements) == WalkOf(elements).cache[WalkOf(elements).path]

\* C26: a call of tuple returns an instance, never an absent result; when the
\* node of its sequence holds no WeakRef or one whose target was collected,
\* the call makes a new frozen copy, stores a WeakRef to it at the node and
\* returns it, and an identical call made while that instance is alive
\* returns the same instance
C26_MissMakesInstance ==
  \A elements \in TupleInputs, keep \in BOOLEAN :
    LET r == tuple(primitives, tupleCache, insts, pending, elements, keep)
        again == tuple(r.primitives, r.cache, r.insts, pending, elements, keep)
    IN r.ok =>
         /\ r.ret \in InstIds \cup {EMPTY_TUPLE}
         /\ r.ret \in InstIds => r.insts[r.ret].live
         /\ (Len(elements) > 0 /\ RefAt(elements) \in {NoRef, Dead}) =>
               /\ r.ret \in InstIds \ LiveInsts
               /\ isFrozen(r.insts[r.ret]) /\ r.insts[r.ret].own
               /\ r.insts[r.ret].elems = elements
               /\ r.cache[WalkOf(elements).path] = r.ret
               /\ again.ok /\ again.ret = r.ret

\* a call has just made the only live instance, at the node whose earlier
\* instance was collected: a finalization is due and no dead WeakRef is left
C26_Witness ==
  /\ last.op = "tuple" /\ last.ret = "created"
  /\ Cardinality(LiveInsts) = 1
  /\ pending # EmptyBag
  /\ \A path \in DOMAIN tupleCache : tupleCache[path] # Dead
  /\ \A path \in DOMAIN tupleCache : Len(path) <= 1

\* the registrations of live instances and the callbacks still due that
\* hold the wrapper of table entry k
UsesOf(k) ==
  Cardinality({x \in InstIds \X (1..MaxLen) :
                 /\ insts[x[1]].live /\ x[2] \in DOMAIN insts[x[1]].regs
                 /\ insts[x[1]].regs[x[2]] = primitives[k].ref})
  + CopiesIn(primitives[k].ref, pending)

\* C29: the usage count of a primitive token is the number of registrations
\* of live instances plus the callbacks still due, so each callback that has
\* run took one off; and once every instance that used a primitive value is
\* collected and its callbacks have run, the value has no entry in the table
C29_TokenEvicted ==
  \A k \in DOMAIN primitives :
    /\ primitives[k].count = UsesOf(k)
    /\ UsesOf(k) > 0

\* the primitive value a wrapper stands for
ValueOf(wrapper) == Prim(wrapper.v)

\* C30: getRef hands an object back as it is; and in every interleaving of
\* tuple calls, collections and finalization callbacks, the wrapper a live
\* instance was interned under is still the table's entry for its value, so
\* getRef returns that same wrapper and changes nothing
C30_WrapperKept ==
  /\ \A i \in LiveInsts : \A j \in DOMAIN insts[i].elems :
       LET v == insts[i].elems[j]
           r == getRef(primitives, WrappersInUse(primitives, tupleCache, insts, pending), v)
       IN IF v.t = "obj" THEN r.ref = v /\ r.primitives = primitives
          ELSE /\ v \in DOMAIN primitives
               /\ r.ref = primitives[v].ref
               /\ r.ref \in Range(insts[i].regs)
               /\ r.primitives = primitives
  /\ \A i \in LiveInsts : \A w \in Range(insts[i].regs) :
       ValueOf(w) \in DOMAIN primitives /\ primitives[ValueOf(w)].ref = w

\* every due callback has run after the collection of an instance that
\* shared the wrapper of 1 with an instance still alive, which also holds an
\* object
C30_Witness ==
  /\ last.op = "finalize" /\ pending = EmptyBag
  /\ Prim(1) \in DOMAIN primitives
  /\ \E path \in DOMAIN tupleCache :
       tupleCache[path] = Dead /\ path = <<primitives[Prim(1)].ref>>
  /\ \E i \in LiveInsts : insts[i].elems = <<Obj(1), Prim(1)>>

\* the items a queue holds, oldest first: the slots from popIndex up to
\* pushIndex of each block, from the head block along next
RECURSIVE ItemsFrom(_, _)
ItemsFrom(q, id) ==
  IF id = NoBlock THEN <<>>
  ELSE LET block == q.blocks[id]
       IN [i \in 1..(block.pushIndex - block.popIndex) |-> block.items[block.popIndex + i - 1]]
          \o ItemsFrom(q, block.next)
Held(q) == ItemsFrom(q, q.head)

\* C28: the queue is first in, first out, block boundaries included: a push
\* puts its item behind every item held and adds one to length; a pop hands
\* back the oldest item held, removes it alone and takes one off length; a
\* pop on an empty queue returns undefined and leaves length at 0
C28_Fifo ==
  chunkedQueue # NoQueue =>
    /\ length(chunkedQueue) = Len(Held(chunkedQueue))
    /\ \A item \in Items :
         LET r == push(chunkedQueue, item)
         IN r.ok => /\ Held(r.queue) = Append(Held(chunkedQueue), item)
                    /\ length(r.queue) = length(chunkedQueue) + 1
    /\ LET r == pop(chunkedQueue)
       IN IF Held(chunkedQueue) = <<>>
          THEN r.ret = Undefined /\ length(r.queue) = 0 /\ Held(r.queue) = <<>>
          ELSE /\ r.ret = Head(Held(chunkedQueue))
               /\ Held(r.queue) = Tail(Held(chunkedQueue))
               /\ length(r.queue) = length(chunkedQueue) - 1

\* a pop has just taken the first item of a block the head moved on to,
\* with items of a further block still held
C28_Witness ==
  /\ last.op = "pop" /\ last.ret = "b"
  /\ chunkedQueue.head # chunkedQueue.tail
  /\ chunkedQueue.blocks[chunkedQueue.head].popIndex = 1
  /\ chunkedQueue.blocks[chunkedQueue.head].items[0] = "b"
  /\ \A id \in DOMAIN chunkedQueue.blocks : chunkedQueue.blocks[id].next # chunkedQueue.head
  /\ chunkedQueue.head # 1
  /\ Len(Held(chunkedQueue)) >= BLOCK_SIZE

\* the paths of container h that have a node
NodePaths(hp, mp, h) == {q \in Paths : getNode(hp, mp, h, q) # NoNode}

\* the first k segments of p
Prefix(p, k) == SubSeq(p, 1, k)

\* what the pruning rule says of the node at the first k segments of p when
\* delete(p, deleteSubTree) removes something: the terminal node goes when it
\* has no children left, an ancestor goes when the child below it went and
\* it is left with neither a value nor another child
RECURSIVE Detached(_, _, _, _, _, _)
Detached(hp, mp, h, p, deleteSubTree, k) ==
  LET n == getNode(hp, mp, h, Prefix(p, k))
  IN IF k = Len(p) THEN deleteSubTree \/ MapSize(hp[n]) = 0
     ELSE /\ Detached(hp, mp, h, p, deleteSubTree, k + 1)
          /\ MapSize(hp[n]) = 1
          /\ hp[n].SET # 1

\* the paths the rule takes the node from
Pruned(hp, mp, h, p, deleteSubTree) ==
  {q \in NodePaths(hp, mp, h) :
     \/ deleteSubTree /\ IsPrefix(p, q) /\ q # p
     \/ \E k \in 1..Len(p) :
          IsPrefix(Prefix(p, k), q) /\ Detached(hp, mp, h, p, deleteSubTree, k)}

\* C31: in a standalone container, a delete that returns true detaches the
\* terminal node exactly when it has no children left and each ancestor,
\* bottom-up, exactly when it is left with neither a value nor a child; every
\* other node stays, with its value, and the root always stays
C31_Pruning ==
  \A p \in Paths, deleteSubTree \in BOOLEAN :
    LET r == delete(heap, maps, M, p, deleteSubTree)
    IN r.ret = "true" =>
         /\ NodePaths(r.heap, maps, M) =
              NodePaths(heap, maps, M) \ Pruned(heap, maps, M, p, deleteSubTree)
         /\ <<>> \in NodePaths(r.heap, maps, M)
         /\ \A q \in NodePaths(r.heap, maps, M) \ {p} :
              /\ NodeAt(r.heap, maps, M, q).SET = NodeAt(heap, maps, M, q).SET
              /\ NodeAt(r.heap, maps, M, q).VAL = NodeAt(heap, maps, M, q).VAL
              /\ NodeAt(r.heap, maps, M, q).SET = 1 \/ q = <<>>
                   \/ NodeAt(r.heap, maps, M, q).keys # <<>>

\* a delete has just returned true and left one node below the root: a node
\* with a value and no child left, under a root without a value
C31_Witness ==
  /\ last.op = "delete" /\ last.ret = "true"
  /\ NodePaths(heap, maps, M) = {<<>>, <<1>>}
  /\ NodeAt(heap, maps, M, <<1>>).SET = 1
  /\ MapSize(heap[maps[M].root]) = 1
  /\ NodeAt(heap, maps, M, <<>>).SET = 0

\* C32: after every completed operation, every node below the root of a
\* container has a value or at least one child
C32_NoDangling ==
  \A h \in {x \in Handles : maps[x].live} :
    \A n \in TreeOf(heap, maps, h) \ {maps[h].root} :
      heap[n].SET = 1 \/ MapSize(heap[n]) > 0

\* the path, from the true root, of the node the view of a view aliases,
\* and the nodes from the true root down to it
InnerPath == maps[Sub].basePath \o maps[Copy].basePath
InnerChain == {getNode(heap, maps, M, Prefix(InnerPath, k)) : k \in 0..Len(InnerPath)}
InnerAttached ==
  /\ maps[Sub].live /\ maps[Copy].live
  /\ getNode(heap, maps, M, maps[Sub].basePath) = maps[Sub].root
  /\ getNode(heap, maps, M, InnerPath) = maps[Copy].root

\* C33: for v2 = m.getSubMap(b1).getSubMap(b2), a set of a new path through
\* v2 adds one to m.size and to the count of every node from the true root
\* down to the aliased node, and a delete through v2 that returns true takes
\* the number of entries it removed off each of them
C33_ViewOfViewCounts ==
  InnerAttached =>
    \A p \in KeysFor(Copy) :
      /\ LET r == set(heap, maps, Copy, p, "a")
             isNew == p \notin EntryPaths(heap, maps, Copy)
         IN (r.ok /\ isNew) =>
              \A n \in InnerChain : r.heap[n].COUNT = heap[n].COUNT + 1
      /\ \A deleteSubTree \in BOOLEAN :
           LET r == delete(heap, maps, Copy, p, deleteSubTree)
               gone == Cardinality(EntryPaths(heap, maps, Copy))
                       - Cardinality(EntryPaths(r.heap, maps, Copy))
           IN r.ret = "true" =>
                \A n \in InnerChain : r.heap[n].COUNT = heap[n].COUNT - gone

\* C34: clear() through a view at b whose node is attached leaves the
\* origin with no entry at or below b and with every entry outside b, and
\* takes the number of entries removed off the origin's size
C34_ViewClear ==
  Attached =>
    LET b == maps[Sub].basePath
        hp == clear(heap, maps, Sub)
        below == EntriesBelow(heap, maps, M, b)
    IN /\ EntriesBelow(hp, maps, M, b) = {}
       /\ EntryPaths(hp, maps, M) = EntryPaths(heap, maps, M) \ below
       /\ size(hp, maps, M) = size(heap, maps, M) - Cardinality(below)

\* C35: delete returns true only when it removed at least one entry, and
\* then size is strictly smaller; it returns false only when it removed
\* nothing
C35_DeleteResult ==
  \A h \in {x \in Handles : maps[x].live} :
    \A p \in KeysFor(h), deleteSubTree \in BOOLEAN :
      LET r == delete(heap, maps, h, p, deleteSubTree)
          removed == Cardinality(EntryPaths(heap, maps, h) \ EntryPaths(r.heap, maps, h))
      IN /\ r.ret = "true" =>
              removed >= 1 /\ size(r.heap, maps, h) < size(heap, maps, h)
         /\ r.ret = "false" => removed = 0 /\ r.heap = heap

\* C36: a key k that is not an array stands for the path [k]: set, get,
\* has, getOrSet and delete called with k return what the same call with [k]
\* returns and leave the container as that call leaves it, and after
\* set(k, v) entries() holds the key [k] with v
C36_ScalarKey ==
  \A k \in ScalarKeys, v \in Defined :
    /\ setKey(heap, maps, M, k, v) = set(heap, maps, M, <<k>>, v)
    /\ getOrSetKey(heap, maps, M, k, v) = getOrSet(heap, maps, M, <<k>>, v)
    /\ getKey(heap, maps, M, k) = get(heap, maps, M, <<k>>)
    /\ hasKey(heap, maps, M, k) = has(heap, maps, M, <<k>>)
    /\ deleteKey(heap, maps, M, k) = delete(heap, maps, M, <<k>>, FALSE)
    /\ LET r == setKey(heap, maps, M, k, v)
       IN r.ok => [key |-> <<k>>, value |-> v]
                    \in Range(entries(r.heap, maps, M, Options(DepthFirst, PreOrder)))

\* the options a caller of entries or values may pass: no basePath, a
\* basePath that is an array, or one that is not
AnyOptions ==
  {Options(o[1], o[2]) : o \in TraverseModes \X YieldModes}
  \cup {OptionsAt(b, o[1], o[2]) : b \in Paths, o \in TraverseModes \X YieldModes}
  \cup {ScalarOptions(k, o[1], o[2]) : k \in Keys \cup {FalsyKey},
                                      o \in TraverseModes \X YieldModes}

\* C37: values(options) yields the value of every entry entries(options)
\* yields, in the same order, for every traversal mode, yield mode and
\* basePath
C37_ValuesOfEntries ==
  \A options \in AnyOptions :
    LET e == entries(heap, maps, M, options)
    IN values(heap, maps, M, options) = [i \in 1..Len(e) |-> e[i].value]

\* the values of a container with different values at a path, at a sibling
\* path and at a path extending the first have just been listed breadth-first
\* in post-order
C37_Witness ==
  /\ last.op = "values"
  /\ last.ret.traverseMode = BreadthFirst /\ last.ret.yieldMode = PostOrder
  /\ get(heap, maps, M, <<1>>) = "a"
  /\ get(heap, maps, M, <<2>>) = "b"
  /\ get(heap, maps, M, <<1, 2>>) = "b"
  /\ last.ret.out = <<"b", "a", "b">>

\* C38: once the node a view aliases is detached from the origin, a set or
\* a delete through the view changes nothing the origin holds: neither its
\* entries nor its size nor the count of any of its nodes
C38_StaleViewFrame ==
  (maps[Sub].live /\ ~Attached) =>
    \A p \in KeysFor(Sub) :
      /\ LET r == set(heap, maps, Sub, p, "a")
         IN r.ok => Contents(r.heap, maps, M) = Contents(heap, maps, M)
      /\ \A deleteSubTree \in BOOLEAN :
           LET r == delete(heap, maps, Sub, p, deleteSubTree)
           IN Contents(r.heap, maps, M) = Contents(heap, maps, M)

\* C39: size and the count of every node of a container are never negative
C39_NonNegative ==
  \A h \in {x \in Handles : maps[x].live} :
    /\ size(heap, maps, h) >= 0
    /\ \A n \in TreeOf(heap, maps, h) : heap[n].COUNT >= 0

\* how many times node n is in a list of nodes
Times(n, nodes) == Cardinality({k \in DOMAIN nodes : nodes[k] = n})

\* the nodes a generator has to go through, and those of the subtree clone
\* copies
NodesBelow(hp, n) == IF n = NoNode THEN {} ELSE Closure(hp, {n})

\* while a generator runs and when it has returned, no node was handed to
\* pushToStack more than once nor taken from the stack or queue more than
\* once, twice in depth-first post-order; a generator that has returned went
\* through every node and yielded what entries or values yields
IteratorBounded ==
  /\ \A n \in NodeIds :
       /\ Times(n, iterator.expands) <= 1
       /\ Times(n, iterator.pops) <=
            (IF iterator.traverseMode = DepthFirst /\ iterator.yieldMode = PostOrder
             THEN 2 ELSE 1)
  /\ iterator.state = "done" =>
       /\ Range(iterator.pops) = TreeOf(heap, maps, M)
       /\ iterator.justValue =>
            iterator.out = values(heap, maps, M,
                                  Options(iterator.traverseMode, iterator.yieldMode))
       /\ ~iterator.justValue =>
            iterator.out = entries(heap, maps, M,
                                   Options(iterator.traverseMode, iterator.yieldMode))

\* clone returns, and its result has one node for each node it had to copy
CloneBounded ==
  \A hasBasePath \in BOOLEAN, b \in Paths :
    LET r == clone(heap, maps, M, hasBasePath, b, Copy)
        from == IF hasBasePath THEN getNode(heap, maps, M, b) ELSE maps[M].root
    IN r.ok =>
         Cardinality(TreeOf(r.heap, [maps EXCEPT ![Copy] = r.inst], Copy))
           = IF from = NoNode THEN 1 ELSE Cardinality(NodesBelow(heap, from))

\* C40: every traversal, in the four modes, of entries and of values, and
\* every clone terminates on every container: a running generator returns
\* after finitely many loop iterations, and each node is expanded at most
\* once and popped at most once, twice in depth-first post-order
C40_Terminates ==
  /\ [](IteratorBounded /\ CloneBounded)
  /\ (iterator.state = "running") ~> (iterator.state = "done")

\* a depth-first post-order generator has returned on a container of four
\* nodes, two of them with children: both were popped twice
C40_Witness ==
  /\ iterator.state = "done"
  /\ iterator.traverseMode = DepthFirst /\ iterator.yieldMode = PostOrder
  /\ Cardinality(TreeOf(heap, maps, M)) = 4
  /\ Len(iterator.pops) = 6
  /\ Len(iterator.expands) = 2

====
